---- MODULE Spec2Model ----
(***************************************************************************)
(* Read-cache and prefetch engine of the Multi-Storage File System (MSFS). *)
(*                                                                         *)
(* The cache-line engine (fetch, touch, notifyWaiters, cachePrune) and the *)
(* backend drivers (readFile, statFile) are translated from the Go source. *)
(* The read handler, the inode lookup and the reload driver live in files  *)
(* that are not part of the source tree at hand; they follow sections 4.2, *)
(* 4.3 and 4.5 of the specification.                                       *)
(*                                                                         *)
(* Every critical section (globals.Lock() .. globals.Unlock()) is one      *)
(* atomic action, so every state of the model is a state in which the      *)
(* global lock is free.  Go pointers are modelled as indices: a            *)
(* *cacheLineStruct is an index into cacheLine, a *backendStruct an index  *)
(* into backend, a *sync.WaitGroup the index of the request that owns it.  *)
(***************************************************************************)
EXTENDS Naturals, Integers, Sequences, FiniteSets, TLC

(***************************************************************************)
(* Bounds of the model.                                                    *)
(***************************************************************************)
\* largest configured cache_lines value tried
MaxCacheLines == 2
\* largest configured prefetch_window value tried
MaxPrefetchWindow == 1
\* highest line number holding object content (objects have MaxLine+1 lines)
MaxLine == 3
\* highest line number a read handler of the concurrent workload asks for
MaxReadLine == 1
\* cacheLineStructs allocated in one run
MaxCacheLineStructs == 3
\* read requests handled in one run
MaxRequests == 2
\* file inodes created in one run
MaxInodes == 1
\* reloads started in one run
MaxReloads == 1
\* highest object version written to the store (version 1 is the initial one)
MaxVersion == 2
\* the one-reader-at-a-time workload: requests, cacheLineStructs, and the
\* largest cache_lines and prefetch_window values tried
SeqMaxRequests == 4
SeqMaxCacheLineStructs == 4
SeqMaxCacheLines == 2
SeqMaxPrefetchWindow == 3
\* byte-level reads: largest object size and largest cache_line_size, in bytes
MaxObjectSize == 5
MaxCacheLineSize == 2
\* byte-level reads: largest cache_lines
ByteMaxCacheLines == 2
\* directory listings: largest page size asked of a driver (0 asks for none)
MaxPageSize == 2
\* reloads next to reads: settings a configuration can give a backend, reloads
\* started, file inodes created, read requests and cacheLineStructs
ReloadMaxSettings == 2
ReloadMaxReloads == 2
ReloadMaxInodes == 2
ReloadMaxRequests == 2
ReloadMaxCacheLineStructs == 2

(***************************************************************************)
(* Names.                                                                  *)
(***************************************************************************)
DirNames == {"d1", "d2"}

\* the names a configuration of the reload workload can hold
ReloadDirNames == DirNames \cup {"d3"}

\* "d1" is served by the S3 driver, "d2" by the AIStore driver
BackendType(d) == IF d = "d1" THEN "S3" ELSE "AIStore"

CacheLineInbound == "CacheLineInbound"
CacheLineClean == "CacheLineClean"
CacheLineOutbound == "CacheLineOutbound"
CacheLineDirty == "CacheLineDirty"

VARIABLES
    config,                 \* globals.config: cacheLines, prefetchWindow
    backend,                \* every backendStruct ever constructed
    objectVersion,          \* the object stores: current version of each object
    inodeMap,               \* globals.inodeMap (file inodes)
    nextInodeNumber,        \* the process-wide inode number counter
    cacheLine,              \* every cacheLineStruct ever allocated
    cleanCacheLineLRU,      \* globals.cleanCacheLineLRU, front first
    dirtyCacheLineLRU,      \* globals.dirtyCacheLineLRU, front first
    inboundCacheLineCount,  \* globals.inboundCacheLineCount
    fetchTask,              \* the fetch goroutine of each cacheLineStruct
    request,                \* the read handlers
    waitLog,                \* history of each line: the backend and ETag of its inode
                            \* at allocation, who attached to it, who was released
    reload,                 \* the reload worker
    fatal,                  \* the process has aborted (logger.Fatalf)
    lookupLog,              \* history: the (path, backend, inode number) of every lookup
    driverCalls,            \* history: the driver operations the core has invoked
    reloadLog,              \* history: the configuration handed to the last reload, the
                            \* contexts that could not be constructed, the registry before
    byteRead,               \* one read(inode, offset, length) followed byte by byte
    listing,                \* one directory handle being enumerated page by page
    driverCall,             \* one call of a driver operation with its input and result
    mutex                   \* globals.Lock()/Unlock() as the goroutines of fetch() use it

\* the variables of the handlers that stand apart from the cache-line engine
handlerVars == <<byteRead, listing, driverCall, mutex>>

vars == <<config, backend, objectVersion, inodeMap, nextInodeNumber, cacheLine,
          cleanCacheLineLRU, dirtyCacheLineLRU, inboundCacheLineCount, fetchTask, request,
          waitLog, reload, fatal, lookupLog, driverCalls, reloadLog, byteRead, listing,
          driverCall, mutex>>

(***************************************************************************)
(* Strings are sequences of one-character strings, so that quoting and     *)
(* trimming of ETags are computed as the drivers compute them.             *)
(***************************************************************************)
EmptyString == <<>>

DoubleQuote == "\""

\* the strong validator of version n of an object, as AIStore's checksum value
ETagOf(n) == <<"e", ToString(n)>>

\* the ETag header of an S3 response carries the validator in double quotes
s3ETagHeader(n) == <<DoubleQuote>> \o ETagOf(n) \o <<DoubleQuote>>

RECURSIVE TrimRight(_, _)
TrimRight(s, cut) ==
    IF s # <<>> /\ s[Len(s)] = cut THEN TrimRight(SubSeq(s, 1, Len(s) - 1), cut) ELSE s

RECURSIVE TrimLeft(_, _)
TrimLeft(s, cut) ==
    IF s # <<>> /\ s[1] = cut THEN TrimLeft(Tail(s), cut) ELSE s

\* strings.TrimLeft(strings.TrimRight(eTag, "\""), "\"")
trimETag(s) == TrimLeft(TrimRight(s, DoubleQuote), DoubleQuote)

(***************************************************************************)
(* The state the global lock protects, gathered in one record so that the  *)
(* functions called inside a critical section can be composed.             *)
(***************************************************************************)
Globals ==
    [inodeMap |-> inodeMap,
     cacheLine |-> cacheLine,
     cleanCacheLineLRU |-> cleanCacheLineLRU,
     dirtyCacheLineLRU |-> dirtyCacheLineLRU,
     inboundCacheLineCount |-> inboundCacheLineCount,
     fetchTask |-> fetchTask,
     request |-> request,
     waitLog |-> waitLog,
     fatal |-> fatal]

Commit(g) ==
    /\ inodeMap' = g.inodeMap
    /\ cacheLine' = g.cacheLine
    /\ cleanCacheLineLRU' = g.cleanCacheLineLRU
    /\ dirtyCacheLineLRU' = g.dirtyCacheLineLRU
    /\ inboundCacheLineCount' = g.inboundCacheLineCount
    /\ fetchTask' = g.fetchTask
    /\ request' = g.request
    /\ waitLog' = g.waitLog
    /\ fatal' = g.fatal

\* f without the key k
MapDelete(f, k) == [x \in DOMAIN f \ {k} |-> f[x]]

\* the sequence s without its elements equal to e (list.Remove of e's element)
RECURSIVE ListRemove(_, _)
ListRemove(s, e) ==
    IF s = <<>> THEN <<>>
    ELSE IF Head(s) = e THEN ListRemove(Tail(s), e)
    ELSE <<Head(s)>> \o ListRemove(Tail(s), e)

(***************************************************************************)
(* The object stores and the backend drivers.                              *)
(*                                                                         *)
(* Each backend holds one object.  Version n of it has the validator       *)
(* ETagOf(n); the bytes of its cache line l are the one-chunk buffer       *)
(* <<[version |-> n, line |-> l]>>, and lines above MaxLine lie beyond the *)
(* end of the object.                                                      *)
(***************************************************************************)
objectChunk(n, l) == <<[version |-> n, line |-> l]>>

NoOutput == [eTag |-> EmptyString, buf |-> <<>>]

\* the version number that stands for "the store holds no object at this key":
\* HeadObject and GetObject return an error
NoObject == 0

\* the store rejects a range that starts at or beyond the end of the object
rangeSatisfiable(l) == l <= MaxLine

\* (*s3ContextStruct).readFile: HEAD, manual ETag comparison, ranged GET
s3ReadFile(n, input) ==
    IF n = NoObject THEN [err |-> TRUE, out |-> NoOutput]
    ELSE IF input.ifMatch # EmptyString /\ input.ifMatch # trimETag(s3ETagHeader(n))
    THEN [err |-> TRUE, out |-> NoOutput]
    ELSE IF ~rangeSatisfiable(input.offsetCacheLine)
    THEN [err |-> TRUE, out |-> NoOutput]
    ELSE [err |-> FALSE,
          out |-> [eTag |-> s3ETagHeader(n), buf |-> objectChunk(n, input.offsetCacheLine)]]

\* (*aistoreContextStruct).readFile: HEAD only when ifMatch is given, ranged GET
aistoreReadFile(n, input) ==
    IF n = NoObject THEN [err |-> TRUE, out |-> NoOutput]
    ELSE IF input.ifMatch # EmptyString /\ ETagOf(n) # input.ifMatch
    THEN [err |-> TRUE, out |-> NoOutput]
    ELSE IF ~rangeSatisfiable(input.offsetCacheLine)
    THEN [err |-> TRUE, out |-> NoOutput]
    ELSE [err |-> FALSE,
          out |-> [eTag |-> ETagOf(n), buf |-> objectChunk(n, input.offsetCacheLine)]]

\* readFileWrapper(backend.context, readFileInput) against the store's version n
readFileWrapper(type, n, input) ==
    IF type = "S3" THEN s3ReadFile(n, input) ELSE aistoreReadFile(n, input)

\* (*s3ContextStruct).statFile / (*aistoreContextStruct).statFile: the eTag
statFileETag(type, n) ==
    IF type = "S3" THEN trimETag(s3ETagHeader(n)) ELSE ETagOf(n)

(***************************************************************************)
(* The cache-line engine.                                                  *)
(***************************************************************************)
\* waiter.Done() for each waiter of the slice ws, in order
RECURSIVE waitersDone(_, _, _)
waitersDone(g, c, ws) ==
    IF ws = <<>> THEN g
    ELSE waitersDone([g EXCEPT !.request[Head(ws)].waitGroup = @ - 1,
                               !.waitLog[c].notified =
                                   Append(@, [waiter |-> Head(ws),
                                              state |-> g.cacheLine[c].state])],
                     c, Tail(ws))

\* notifyWaiters with a loop that starts at the second waiter
notifyWaitersSkipFirst(g, c) ==
    [waitersDone(g, c, IF g.cacheLine[c].waiters = <<>> THEN <<>>
                       ELSE Tail(g.cacheLine[c].waiters))
        EXCEPT !.cacheLine[c].waiters = <<>>]

\* (*cacheLineStruct).notifyWaiters
notifyWaiters(g, c) ==
    [waitersDone(g, c, g.cacheLine[c].waiters) EXCEPT !.cacheLine[c].waiters = <<>>]

\* globals.cleanCacheLineLRU.PushBack(cacheLine), kept in cacheLine.listElement
lruPushBack(g, c) ==
    [g EXCEPT !.cleanCacheLineLRU = Append(@, c), !.cacheLine[c].listElement = TRUE]

\* (*cacheLineStruct).touch.  Remove(cacheLine.listElement) of a line whose
\* listElement is nil (a line cachePrune has evicted) dereferences nil: the
\* goroutine panics and the process ends before PushBack is reached.
touch(g, c) ==
    IF g.cacheLine[c].state = CacheLineClean
    THEN IF ~g.cacheLine[c].listElement THEN [g EXCEPT !.fatal = TRUE]
         ELSE lruPushBack([g EXCEPT !.cleanCacheLineLRU = ListRemove(@, c)], c)
    ELSE IF g.cacheLine[c].state = CacheLineDirty
    THEN IF ~g.cacheLine[c].listElement THEN [g EXCEPT !.fatal = TRUE]
         ELSE [g EXCEPT !.dirtyCacheLineLRU = Append(ListRemove(@, c), c),
                        !.cacheLine[c].listElement = TRUE]
    ELSE IF g.cacheLine[c].state \in {CacheLineInbound, CacheLineOutbound}
    THEN g
    ELSE [g EXCEPT !.fatal = TRUE]

\* the loop condition of cachePrune
overCapacity(g) ==
    g.inboundCacheLineCount + Len(g.cleanCacheLineLRU) >= config.cacheLines

\* an iteration that takes the front element off the list and leaves its entry
\* in inode.cache
evictFrontKeepEntry(g, c) ==
    LET g1 == [g EXCEPT !.cleanCacheLineLRU = Tail(@), !.cacheLine[c].listElement = FALSE]
        i == g.cacheLine[c].inodeNumber
        l == g.cacheLine[c].lineNumber
    IN  IF i \notin DOMAIN g1.inodeMap THEN [g1 EXCEPT !.fatal = TRUE]
        ELSE IF l \notin DOMAIN g1.inodeMap[i].cache THEN [g1 EXCEPT !.fatal = TRUE]
        ELSE g1

\* an iteration that also empties the content and eTag of the line it evicts
evictFrontClearContent(g, c) ==
    LET g1 == [g EXCEPT !.cleanCacheLineLRU = Tail(@), !.cacheLine[c].listElement = FALSE,
                        !.cacheLine[c].content = <<>>, !.cacheLine[c].eTag = EmptyString]
        i == g.cacheLine[c].inodeNumber
        l == g.cacheLine[c].lineNumber
    IN  IF i \notin DOMAIN g1.inodeMap THEN [g1 EXCEPT !.fatal = TRUE]
        ELSE IF l \notin DOMAIN g1.inodeMap[i].cache THEN [g1 EXCEPT !.fatal = TRUE]
        ELSE [g1 EXCEPT !.inodeMap[i].cache = MapDelete(@, l)]

\* one iteration of cachePrune's loop body, for the front element c
evictFront(g, c) ==
    LET g1 == [g EXCEPT !.cleanCacheLineLRU = Tail(@), !.cacheLine[c].listElement = FALSE]
        i == g.cacheLine[c].inodeNumber
        l == g.cacheLine[c].lineNumber
    IN  IF i \notin DOMAIN g1.inodeMap THEN [g1 EXCEPT !.fatal = TRUE]
        ELSE IF l \notin DOMAIN g1.inodeMap[i].cache THEN [g1 EXCEPT !.fatal = TRUE]
        ELSE [g1 EXCEPT !.inodeMap[i].cache = MapDelete(@, l)]

\* a cachePrune that, finding the clean LRU empty, detaches a line that is
\* still being fetched
RECURSIVE cachePruneInbound(_)
cachePruneInbound(g) ==
    IF g.fatal \/ ~overCapacity(g) THEN g
    ELSE IF g.cleanCacheLineLRU = <<>>
    THEN LET inbound == {c \in 1 .. Len(g.cacheLine) :
                            /\ g.cacheLine[c].state = CacheLineInbound
                            /\ g.cacheLine[c].inodeNumber \in DOMAIN g.inodeMap}
         IN  IF inbound = {} THEN g
             ELSE LET c == CHOOSE x \in inbound : TRUE
                  IN  [g EXCEPT !.inboundCacheLineCount = @ - 1,
                                !.inodeMap[g.cacheLine[c].inodeNumber].cache =
                                    MapDelete(@, g.cacheLine[c].lineNumber)]
    ELSE cachePruneInbound(evictFront(g, Head(g.cleanCacheLineLRU)))

\* cachePrune()
RECURSIVE cachePrune(_)
cachePrune(g) ==
    IF g.fatal \/ ~overCapacity(g) THEN g
    ELSE IF g.cleanCacheLineLRU = <<>> THEN g
    ELSE cachePrune(evictFront(g, Head(g.cleanCacheLineLRU)))

\* readFileInput.ifMatch as fetch() sets it
fetchIfMatch(inode) == EmptyString

\* a [case 1] that leaves globals.inboundCacheLineCount as it is
fetchMissingInodeNoDecrement(g, c) ==
    notifyWaiters(
        lruPushBack([g EXCEPT !.cacheLine[c].state = CacheLineClean,
                              !.cacheLine[c].eTag = EmptyString,
                              !.cacheLine[c].content = <<>>,
                              !.fetchTask[c].missingInode = TRUE,
                              !.fetchTask[c].pc = "done"], c), c)

\* fetch(), inode missing at the start [case 1]; the goroutine returns
fetchMissingInode(g, c) ==
    notifyWaiters(
        lruPushBack([g EXCEPT !.cacheLine[c].state = CacheLineClean,
                              !.cacheLine[c].eTag = EmptyString,
                              !.cacheLine[c].content = <<>>,
                              !.inboundCacheLineCount = @ - 1,
                              !.fetchTask[c].missingInode = TRUE,
                              !.fetchTask[c].pc = "done"], c), c)

\* inode.inboundCacheLineCount-- when the inode is still in globals.inodeMap,
\* the "missing inodeStruct" warning [case 2] / [case 3] when it is not
inodeInboundDecrement(g, c) ==
    LET i == g.cacheLine[c].inodeNumber
    IN  IF i \in DOMAIN g.inodeMap
        THEN [g EXCEPT !.inodeMap[i].inboundCacheLineCount = @ - 1]
        ELSE [g EXCEPT !.fetchTask[c].missingInode = TRUE]

\* fetch() with a retry: after a failed backend call the call is issued again
fetchErrorRetry(g, c) ==
    [g EXCEPT !.fetchTask[c].pc = "io"]

\* fetch() dropping a failed line from its inode's cache map while still
\* placing it on the clean LRU
fetchErrorDrop(g, c) ==
    LET i == g.cacheLine[c].inodeNumber
        g1 == IF i \in DOMAIN g.inodeMap
              THEN [g EXCEPT !.inodeMap[i].cache = MapDelete(@, g.cacheLine[c].lineNumber)]
              ELSE g
    IN  notifyWaiters(
            lruPushBack([inodeInboundDecrement(g1, c) EXCEPT
                              !.cacheLine[c].state = CacheLineClean,
                              !.cacheLine[c].eTag = EmptyString,
                              !.cacheLine[c].content = <<>>,
                              !.inboundCacheLineCount = @ - 1,
                              !.fetchTask[c].pc = "done"], c), c)

\* fetch() whose error path also prunes the cache
fetchErrorPrune(g, c) ==
    cachePrune(notifyWaiters(
        lruPushBack([inodeInboundDecrement(g, c) EXCEPT
                              !.cacheLine[c].state = CacheLineClean,
                              !.cacheLine[c].eTag = EmptyString,
                              !.cacheLine[c].content = <<>>,
                              !.inboundCacheLineCount = @ - 1,
                              !.fetchTask[c].pc = "done"], c), c))

\* fetch(), readFileWrapper returned an error; the goroutine returns
fetchError(g, c) ==
    notifyWaiters(
        lruPushBack([inodeInboundDecrement(g, c) EXCEPT
                              !.cacheLine[c].state = CacheLineClean,
                              !.cacheLine[c].eTag = EmptyString,
                              !.cacheLine[c].content = <<>>,
                              !.inboundCacheLineCount = @ - 1,
                              !.fetchTask[c].pc = "done"], c), c)

\* fetch() that stores the buffer and then goes back to call the backend again
fetchSuccessRefetch(g, c, readFileOutput) ==
    notifyWaiters(
        [inodeInboundDecrement(g, c) EXCEPT
                          !.cacheLine[c].eTag = readFileOutput.eTag,
                          !.cacheLine[c].content = readFileOutput.buf,
                          !.fetchTask[c].pc = IF g.fetchTask[c].calls < 2 THEN "io" ELSE "done"],
        c)

\* fetch() whose success path leaves the line Dirty on the dirty LRU
fetchSuccessDirty(g, c, readFileOutput) ==
    notifyWaiters(
        [inodeInboundDecrement(g, c) EXCEPT
                          !.cacheLine[c].state = CacheLineDirty,
                          !.cacheLine[c].eTag = readFileOutput.eTag,
                          !.cacheLine[c].content = readFileOutput.buf,
                          !.cacheLine[c].listElement = TRUE,
                          !.dirtyCacheLineLRU = Append(@, c),
                          !.inboundCacheLineCount = @ - 1,
                          !.fetchTask[c].pc = "done"], c)

\* fetch(), readFileWrapper succeeded; the goroutine returns
fetchSuccess(g, c, readFileOutput) ==
    notifyWaiters(
        lruPushBack([inodeInboundDecrement(g, c) EXCEPT
                              !.cacheLine[c].state = CacheLineClean,
                              !.cacheLine[c].eTag = readFileOutput.eTag,
                              !.cacheLine[c].content = readFileOutput.buf,
                              !.inboundCacheLineCount = @ - 1,
                              !.fetchTask[c].pc = "done"], c), c)

\* fetch() marking the line Clean before the backend call has been made
fetchSnapshotEarlyClean(g, c) ==
    LET inode == g.inodeMap[g.cacheLine[c].inodeNumber]
    IN  [g EXCEPT !.cacheLine[c].state = CacheLineClean,
                  !.fetchTask[c].pc = "io",
                  !.fetchTask[c].backend = inode.backend,
                  !.fetchTask[c].readFileInput =
                      [filePath |-> inode.objectPath,
                       offsetCacheLine |-> g.cacheLine[c].lineNumber,
                       ifMatch |-> fetchIfMatch(inode)]]

\* fetch(), inode found at the start: the fields needed for the backend call
\* are copied before the lock is released
fetchSnapshot(g, c) ==
    LET inode == g.inodeMap[g.cacheLine[c].inodeNumber]
    IN  [g EXCEPT !.fetchTask[c].pc = "io",
                  !.fetchTask[c].backend = inode.backend,
                  !.fetchTask[c].readFileInput =
                      [filePath |-> inode.objectPath,
                       offsetCacheLine |-> g.cacheLine[c].lineNumber,
                       ifMatch |-> fetchIfMatch(inode)]]

(***************************************************************************)
(* The read handler (specification 4.3, read).                             *)
(***************************************************************************)
NoInput == [filePath |-> EmptyString, offsetCacheLine |-> 0, ifMatch |-> EmptyString]

\* a miss: allocate the line Inbound, index it, start its fetch
allocate(g, i, l) ==
    LET c == Len(g.cacheLine) + 1
    IN  [g EXCEPT
            !.cacheLine = Append(@, [inodeNumber |-> i, lineNumber |-> l,
                                     state |-> CacheLineInbound, eTag |-> EmptyString,
                                     content |-> <<>>, waiters |-> <<>>,
                                     listElement |-> FALSE]),
            !.inodeMap[i].cache = (l :> c) @@ @,
            !.inodeMap[i].inboundCacheLineCount = @ + 1,
            !.inboundCacheLineCount = @ + 1,
            !.fetchTask = Append(@, [pc |-> "begin", backend |-> 0,
                                     readFileInput |-> NoInput,
                                     readFileOutput |-> NoOutput,
                                     err |-> FALSE, calls |-> 0,
                                     missingInode |-> FALSE]),
            !.waitLog = Append(@, [attached |-> <<>>, notified |-> <<>>,
                                   backend |-> g.inodeMap[i].backend,
                                   inodeETag |-> g.inodeMap[i].eTag])]

\* request r attaches its WaitGroup to the Inbound line c
attach(g, c, r) ==
    [g EXCEPT !.cacheLine[c].waiters = Append(@, r),
              !.request[r].waitGroup = @ + 1,
              !.waitLog[c].attached = Append(@, r)]

\* step 2 for one line of the request
readLine(g, r, i, l) ==
    LET g1 == IF l \in DOMAIN g.inodeMap[i].cache THEN g ELSE allocate(g, i, l)
    IN  IF g1.fatal THEN g1
        ELSE LET c == g1.inodeMap[i].cache[l]
                 g2 == IF g1.cacheLine[c].state = CacheLineInbound
                       THEN attach(g1, c, r) ELSE g1
             IN  [g2 EXCEPT !.request[r].held = Append(@, c)]

RECURSIVE readLines(_, _, _, _, _)
readLines(g, r, i, l, last) ==
    IF l > last \/ g.fatal THEN g
    ELSE readLines(readLine(g, r, i, l), r, i, l + 1, last)

\* step 3: lines l .. last are treated as misses nobody waits for
RECURSIVE prefetchLines(_, _, _, _)
prefetchLines(g, i, l, last) ==
    IF l > last \/ g.fatal THEN g
    ELSE prefetchLines(IF l \in DOMAIN g.inodeMap[i].cache THEN g ELSE allocate(g, i, l),
                       i, l + 1, last)

\* steps 1 to 3 of read(inode, offset, length) for the lines first .. last;
\* prefetch is scheduled when the first line of the request is a miss
readBegin(g, i, first, last) ==
    LET r == Len(g.request) + 1
        miss == first \notin DOMAIN g.inodeMap[i].cache
        g0 == [g EXCEPT !.request = Append(@, [inodeNumber |-> i,
                                               eTag |-> g.inodeMap[i].eTag,
                                               first |-> first, last |-> last,
                                               held |-> <<>>, waitGroup |-> 0,
                                               pc |-> "waiting", slices |-> <<>>])]
        g1 == readLines(g0, r, i, first, last)
    IN  IF miss THEN prefetchLines(g1, i, first + 1, first + config.prefetchWindow)
        ELSE g1

\* step 5: every held line is touched, in the order of the request; a touch
\* that aborts the process ends the handler
RECURSIVE touchAll(_, _)
touchAll(g, held) ==
    IF held = <<>> \/ g.fatal THEN g
    ELSE touchAll(touch(g, Head(held)), Tail(held))

\* step 5: the buffer of each held line is sliced
slice(g, held) == [k \in 1 .. Len(held) |-> g.cacheLine[held[k]].content]

\* step 5: the response is the concatenation of the slices
RECURSIVE assemble(_)
assemble(slices) ==
    IF slices = <<>> THEN <<>> ELSE Head(slices) \o assemble(Tail(slices))

\* step 5; a handler whose touch aborted the process does not return
readEnd(g, r) ==
    LET g1 == touchAll(g, g.request[r].held)
    IN  IF g1.fatal THEN g1
        ELSE [g1 EXCEPT !.request[r].pc = "done",
                        !.request[r].slices = slice(g, g.request[r].held)]

(***************************************************************************)
(* The reload driver (specification 4.5) and the inode table (4.2).        *)
(***************************************************************************)
BackendIds == 1 .. Len(backend)

ActiveNames == {backend[b].dirName : b \in {x \in BackendIds : backend[x].state = "active"}}

\* the root directory lists the dir_name of every registered backend
RootListing ==
    {backend[b].dirName : b \in {x \in BackendIds : backend[x].state \in {"active", "draining"}}}

InodesOf(b) == {i \in DOMAIN inodeMap : inodeMap[i].backend = b}

\* the draining backend's inbound_count
backendInboundCount(b) ==
    Cardinality({c \in 1 .. Len(cacheLine) :
                    waitLog[c].backend = b /\ cacheLine[c].state = CacheLineInbound})

\* a set of names as a sequence
RECURSIVE SetToSeq(_)
SetToSeq(S) ==
    IF S = {} THEN <<>>
    ELSE LET x == CHOOSE y \in S : TRUE IN <<x>> \o SetToSeq(S \ {x})

\* step 3: a backend is constructed from its entry of the new configuration
RECURSIVE newBackends(_, _)
newBackends(names, newConfig) ==
    IF names = <<>> THEN <<>>
    ELSE <<[dirName |-> Head(names), state |-> "pending", context |-> "live",
            settings |-> newConfig[Head(names)]]>>
         \o newBackends(Tail(names), newConfig)

\* step 4b for one inode: its Clean lines leave the LRU, the inode leaves the table
RECURSIVE dropCleanLines(_, _)
dropCleanLines(g, cs) ==
    IF cs = {} THEN g
    ELSE LET c == CHOOSE x \in cs : TRUE
             g1 == IF g.cacheLine[c].state = CacheLineClean
                   THEN [g EXCEPT !.cleanCacheLineLRU = ListRemove(@, c),
                                  !.cacheLine[c].listElement = FALSE]
                   ELSE g
         IN  dropCleanLines(g1, cs \ {c})

RECURSIVE detachInodes(_, _)
detachInodes(g, is) ==
    IF is = {} THEN g
    ELSE LET i == CHOOSE x \in is : TRUE
             cs == {g.inodeMap[i].cache[l] : l \in DOMAIN g.inodeMap[i].cache}
             g1 == dropCleanLines(g, cs)
         IN  detachInodes([g1 EXCEPT !.inodeMap = MapDelete(@, i)], is \ {i})

(***************************************************************************)
(* Initial state: the configuration names the one backend "d1".            *)
(***************************************************************************)
NoByteRead ==
    [pc |-> "idle", size |-> 0, cacheLineSize |-> 1, offset |-> 0, length |-> 0,
     ranges |-> {}, result |-> <<>>]

NoListing ==
    [pc |-> "idle", type |-> "S3", bucket |-> {}, maxItems |-> 0,
     continuationToken |-> EmptyString, calls |-> 0, subdirectory |-> <<>>, file |-> <<>>]

NoDriverCall ==
    [pc |-> "idle", type |-> "S3", op |-> "readFile", version |-> 1, exists |-> TRUE,
     tagged |-> TRUE, nilPanics |-> FALSE, headVersion |-> 0, ifMatchHonoured |-> TRUE,
     panic |-> FALSE,
     delete |-> [pc |-> "idle", ifMatch |-> EmptyString, err |-> FALSE],
     input |-> [filePath |-> EmptyString, offsetCacheLine |-> 0, ifMatch |-> EmptyString],
     err |-> FALSE, out |-> [eTag |-> EmptyString, buf |-> <<>>]]

NoMutex ==
    [holder |-> 0, pc |-> <<>>, snapshot |-> <<>>, err |-> <<>>, inodePresent |-> TRUE,
     sections |-> 0]

NoReloadLog == [count |-> 0, newConfig |-> <<>>, failed |-> {}, before |-> <<>>]

\* the settings of a backend of the configuration the process starts with
DefaultSettings == 1

\* the cache-line engine, the registry and the inode table after construction
EngineStart(configs) ==
    /\ config \in configs
    /\ backend = <<[dirName |-> "d1", state |-> "active", context |-> "live",
                    settings |-> DefaultSettings]>>
    /\ objectVersion = [d \in ReloadDirNames |-> 1]
    /\ inodeMap = <<>>
    /\ nextInodeNumber = 2
    /\ cacheLine = <<>>
    /\ cleanCacheLineLRU = <<>>
    /\ dirtyCacheLineLRU = <<>>
    /\ inboundCacheLineCount = 0
    /\ fetchTask = <<>>
    /\ request = <<>>
    /\ waitLog = <<>>
    /\ reload = [pc |-> "idle", count |-> 0, toRemove |-> {}, draining |-> 0]
    /\ fatal = FALSE
    /\ lookupLog = {}
    /\ driverCalls = {}
    /\ reloadLog = NoReloadLog

Start(configs) ==
    /\ EngineStart(configs)
    /\ byteRead = NoByteRead
    /\ listing = NoListing
    /\ driverCall = NoDriverCall
    /\ mutex = NoMutex

Init ==
    Start([cacheLines : 1 .. MaxCacheLines, prefetchWindow : 0 .. MaxPrefetchWindow])

(***************************************************************************)
(* Actions.                                                                *)
(***************************************************************************)
\* the backend overwrites the object behind an existing inode with a new version
Overwrite(d) ==
    /\ objectVersion[d] < MaxVersion
    /\ \E i \in DOMAIN inodeMap : backend[inodeMap[i].backend].dirName = d
    /\ objectVersion' = [objectVersion EXCEPT ![d] = @ + 1]
    /\ UNCHANGED <<config, backend, inodeMap, nextInodeNumber, cacheLine,
                   cleanCacheLineLRU, dirtyCacheLineLRU, inboundCacheLineCount, fetchTask, request,
                   waitLog, reload, fatal>>
    /\ UNCHANGED <<lookupLog, driverCalls, reloadLog, handlerVars>>

\* the mount-relative path of the object of backend b
PathOf(b) == <<backend[b].dirName, "k">>

\* lookup of the object of backend b, in a run that creates at most maxInodes
\* file inodes: the first lookup calls statFile and binds a new inode to the
\* next inode number, a later one finds the inode in the table
LookupStep(b, maxInodes) ==
    /\ ~fatal
    /\ backend[b].state = "active"
    /\ IF InodesOf(b) = {}
       THEN /\ nextInodeNumber < 2 + maxInodes
            /\ inodeMap' = (nextInodeNumber :>
                              [backend |-> b, objectPath |-> <<"k">>,
                               eTag |-> statFileETag(BackendType(backend[b].dirName),
                                                     objectVersion[backend[b].dirName]),
                               cache |-> <<>>, inboundCacheLineCount |-> 0]) @@ inodeMap
            /\ nextInodeNumber' = nextInodeNumber + 1
            /\ driverCalls' = driverCalls \cup {"statFile"}
            /\ lookupLog' = lookupLog \cup {[path |-> PathOf(b), backend |-> b,
                                              inodeNumber |-> nextInodeNumber]}
       ELSE /\ UNCHANGED <<inodeMap, nextInodeNumber, driverCalls>>
            /\ lookupLog' = lookupLog \cup
                    {[path |-> PathOf(b), backend |-> b, inodeNumber |-> i] : i \in InodesOf(b)}
    /\ UNCHANGED <<config, backend, objectVersion, cacheLine, cleanCacheLineLRU,
                   dirtyCacheLineLRU, inboundCacheLineCount, fetchTask, request, waitLog,
                   reload, fatal>>
    /\ UNCHANGED <<reloadLog, handlerVars>>

Lookup(b) == LookupStep(b, MaxInodes)

\* a read handler's first critical section, in a run that handles at most
\* maxRequests requests and allocates at most maxStructs cacheLineStructs
ReadStep(i, first, last, maxRequests, maxStructs) ==
    /\ ~fatal
    /\ Len(request) < maxRequests
    /\ LET g == readBegin(Globals, i, first, last)
       IN  /\ Len(g.cacheLine) <= maxStructs
           /\ Commit(g)
    /\ UNCHANGED <<config, backend, objectVersion, nextInodeNumber, reload>>
    /\ UNCHANGED <<lookupLog, driverCalls, reloadLog, handlerVars>>

\* a read handler of the concurrent workload
DoRead(i, first, last) ==
    ReadStep(i, first, last, MaxRequests, MaxCacheLineStructs)

\* a read handler's second critical section, once its WaitGroup is released
DoReadEnd(r) ==
    /\ ~fatal
    /\ request[r].pc = "waiting"
    /\ request[r].waitGroup = 0
    /\ Commit(readEnd(Globals, r))
    /\ UNCHANGED <<config, backend, objectVersion, nextInodeNumber, reload>>
    /\ UNCHANGED <<lookupLog, driverCalls, reloadLog, handlerVars>>

\* cachePrune() called by a goroutine that holds globals.Lock().  A call that
\* finds nothing to evict returns with globals unchanged and is left out.
CachePruneCall ==
    /\ ~fatal
    /\ cachePrune(Globals) # Globals
    /\ Commit(cachePrune(Globals))
    /\ UNCHANGED <<config, backend, objectVersion, nextInodeNumber, reload>>
    /\ UNCHANGED <<lookupLog, driverCalls, reloadLog, handlerVars>>

\* fetch(): the first critical section
FetchBegin(c) ==
    /\ ~fatal
    /\ fetchTask[c].pc = "begin"
    /\ LET i == cacheLine[c].inodeNumber
       IN  IF i \notin DOMAIN inodeMap
           THEN Commit(fetchMissingInode(Globals, c))
           ELSE Commit(fetchSnapshot(Globals, c))
    /\ UNCHANGED <<config, backend, objectVersion, nextInodeNumber, reload>>
    /\ UNCHANGED <<lookupLog, driverCalls, reloadLog, handlerVars>>

\* fetch(): the backend call, outside the lock; transport tells whether the
\* call can fail for a reason other than the driver's own checks
ReadFileStep(c, transport) ==
    /\ ~fatal
    /\ fetchTask[c].pc = "io"
    /\ \E ioError \in transport :
          LET d == backend[fetchTask[c].backend].dirName
              res == readFileWrapper(BackendType(d), objectVersion[d],
                                     fetchTask[c].readFileInput)
          IN  fetchTask' = [fetchTask EXCEPT
                              ![c].pc = "commit",
                              ![c].calls = @ + 1,
                              ![c].err = ioError \/ res.err,
                              ![c].readFileOutput = IF ioError THEN NoOutput ELSE res.out]
    /\ UNCHANGED <<config, backend, objectVersion, inodeMap, nextInodeNumber, cacheLine,
                   cleanCacheLineLRU, dirtyCacheLineLRU, inboundCacheLineCount, request,
                   waitLog, reload, fatal>>
    /\ driverCalls' = driverCalls \cup {"readFile"}
    /\ UNCHANGED <<lookupLog, reloadLog, handlerVars>>

\* the backend call over a transport that may fail
FetchReadFile(c) == ReadFileStep(c, BOOLEAN)

\* fetch(): the critical section after the backend call
FetchCommit(c) ==
    /\ ~fatal
    /\ fetchTask[c].pc = "commit"
    /\ IF fetchTask[c].err
       THEN Commit(fetchError(Globals, c))
       ELSE Commit(fetchSuccess(Globals, c, fetchTask[c].readFileOutput))
    /\ UNCHANGED <<config, backend, objectVersion, nextInodeNumber, reload>>
    /\ UNCHANGED <<lookupLog, driverCalls, reloadLog, handlerVars>>

\* step 5: the constructed backends become visible in the registry
installed(bs) ==
    [b \in 1 .. Len(bs) |->
        IF bs[b].state = "pending" THEN [bs[b] EXCEPT !.state = "active"] ELSE bs[b]]

\* a reload that takes over the settings of the new configuration for a
\* backend it keeps
ReloadApplyModify(newConfig, failed, maxReloads) ==
    /\ ~fatal
    /\ reload.pc = "idle"
    /\ reload.count < maxReloads
    /\ failed \subseteq DOMAIN newConfig \ ActiveNames
    /\ LET desired == DOMAIN newConfig
           toRemove == {b \in BackendIds : /\ backend[b].state = "active"
                                           /\ backend[b].dirName \notin desired}
           kept == [b \in BackendIds |->
                       IF backend[b].state = "active" /\ backend[b].dirName \in desired
                       THEN [backend[b] EXCEPT !.settings = newConfig[backend[b].dirName]]
                       ELSE backend[b]]
           constructed == kept \o newBackends(SetToSeq((desired \ ActiveNames) \ failed),
                                               newConfig)
       IN  IF toRemove = {}
           THEN /\ backend' = installed(constructed)
                /\ reload' = [reload EXCEPT !.count = @ + 1]
           ELSE /\ backend' = constructed
                /\ reload' = [pc |-> "remove", count |-> reload.count + 1,
                              toRemove |-> toRemove, draining |-> 0]
    /\ UNCHANGED <<config, objectVersion, inodeMap, nextInodeNumber, cacheLine,
                   cleanCacheLineLRU, dirtyCacheLineLRU, inboundCacheLineCount, fetchTask,
                   request, waitLog, fatal>>
    /\ UNCHANGED <<lookupLog, driverCalls, handlerVars>>

\* a reload that gives up, with nothing added and nothing removed, when a
\* context cannot be constructed
ReloadApplyAbort(newConfig, failed, maxReloads) ==
    /\ ~fatal
    /\ reload.pc = "idle"
    /\ reload.count < maxReloads
    /\ failed \subseteq DOMAIN newConfig \ ActiveNames
    /\ LET desired == DOMAIN newConfig
           toRemove == {b \in BackendIds : /\ backend[b].state = "active"
                                           /\ backend[b].dirName \notin desired
                                           /\ failed = {}}
           constructed == backend \o
                            (IF failed = {}
                             THEN newBackends(SetToSeq(desired \ ActiveNames), newConfig)
                             ELSE <<>>)
       IN  IF toRemove = {}
           THEN /\ backend' = installed(constructed)
                /\ reload' = [reload EXCEPT !.count = @ + 1]
           ELSE /\ backend' = constructed
                /\ reload' = [pc |-> "remove", count |-> reload.count + 1,
                              toRemove |-> toRemove, draining |-> 0]
    /\ UNCHANGED <<config, objectVersion, inodeMap, nextInodeNumber, cacheLine,
                   cleanCacheLineLRU, dirtyCacheLineLRU, inboundCacheLineCount, fetchTask,
                   request, waitLog, fatal>>
    /\ UNCHANGED <<lookupLog, driverCalls, handlerVars>>

\* reload(newConfig) in a run of at most maxReloads reloads, steps 1 to 3: the
\* configurations are compared by dir_name and the new contexts are constructed
\* (the contexts in failed cannot be constructed); with nothing to remove,
\* step 5 follows at once and reload returns
ReloadApply(newConfig, failed, maxReloads) ==
    /\ ~fatal
    /\ reload.pc = "idle"
    /\ reload.count < maxReloads
    /\ failed \subseteq DOMAIN newConfig \ ActiveNames
    /\ LET desired == DOMAIN newConfig
           toRemove == {b \in BackendIds : /\ backend[b].state = "active"
                                           /\ backend[b].dirName \notin desired}
           constructed == backend \o newBackends(SetToSeq((desired \ ActiveNames) \ failed),
                                                  newConfig)
       IN  IF toRemove = {}
           THEN /\ backend' = installed(constructed)
                /\ reload' = [reload EXCEPT !.count = @ + 1]
           ELSE /\ backend' = constructed
                /\ reload' = [pc |-> "remove", count |-> reload.count + 1,
                              toRemove |-> toRemove, draining |-> 0]
    /\ UNCHANGED <<config, objectVersion, inodeMap, nextInodeNumber, cacheLine,
                   cleanCacheLineLRU, dirtyCacheLineLRU, inboundCacheLineCount, fetchTask,
                   request, waitLog, fatal>>
    /\ UNCHANGED <<lookupLog, driverCalls, handlerVars>>

\* a reload whose configuration gives every backend the default settings
ReloadStartStep(desired, failed, maxReloads) ==
    /\ ReloadApply([d \in desired |-> DefaultSettings], failed, maxReloads)
    /\ UNCHANGED reloadLog

ReloadStart(desired, failed) == ReloadStartStep(desired, failed, MaxReloads)

\* reload, steps 4a and 4b for backend b
ReloadDrain(b) ==
    /\ ~fatal
    /\ reload.pc = "remove"
    /\ reload.draining = 0
    /\ b \in reload.toRemove
    /\ backend' = [backend EXCEPT ![b].state = "draining"]
    /\ reload' = [reload EXCEPT !.draining = b]
    /\ Commit(detachInodes(Globals, InodesOf(b)))
    /\ UNCHANGED <<config, objectVersion, nextInodeNumber>>
    /\ UNCHANGED <<lookupLog, driverCalls, reloadLog, handlerVars>>

\* reload, step 4c: the wait has ended and the driver context is destroyed;
\* after the last removal step 5 follows and reload returns
ReloadDestroy ==
    /\ ~fatal
    /\ reload.pc = "remove"
    /\ reload.draining # 0
    /\ backendInboundCount(reload.draining) = 0
    /\ LET destroyed == [backend EXCEPT ![reload.draining].state = "removed",
                                        ![reload.draining].context = "destroyed"]
           left == reload.toRemove \ {reload.draining}
       IN  /\ backend' = IF left = {} THEN installed(destroyed) ELSE destroyed
           /\ reload' = [reload EXCEPT !.draining = 0, !.toRemove = left,
                                       !.pc = IF left = {} THEN "idle" ELSE "remove"]
    /\ UNCHANGED <<config, objectVersion, inodeMap, nextInodeNumber, cacheLine,
                   cleanCacheLineLRU, dirtyCacheLineLRU, inboundCacheLineCount, fetchTask,
                   request, waitLog, fatal>>
    /\ UNCHANGED <<lookupLog, driverCalls, reloadLog, handlerVars>>

Next ==
    \/ \E d \in DirNames : Overwrite(d)
    \/ \E b \in BackendIds : Lookup(b)
    \/ \E i \in DOMAIN inodeMap : \E first \in 0 .. MaxReadLine :
          \E last \in first .. MaxReadLine : DoRead(i, first, last)
    \/ \E r \in 1 .. Len(request) : DoReadEnd(r)
    \/ \E c \in 1 .. Len(cacheLine) : FetchBegin(c)
    \/ \E c \in 1 .. Len(cacheLine) : FetchReadFile(c)
    \/ \E c \in 1 .. Len(cacheLine) : FetchCommit(c)
    \/ CachePruneCall
    \/ \E desired \in SUBSET DirNames : \E failed \in SUBSET DirNames :
          ReloadStart(desired, failed)
    \/ \E b \in BackendIds : ReloadDrain(b)
    \/ ReloadDestroy

Spec == Init /\ [][Next]_vars

(***************************************************************************)
(* The read workload on a fixed set of backends: no reload runs.  Every    *)
(* goroutine that can take a step eventually takes it, and every backend   *)
(* call returns.                                                           *)
(***************************************************************************)
NextRead ==
    \/ \E d \in DirNames : Overwrite(d)
    \/ \E b \in BackendIds : Lookup(b)
    \/ \E i \in DOMAIN inodeMap : \E first \in 0 .. MaxReadLine :
          \E last \in first .. MaxReadLine : DoRead(i, first, last)
    \/ \E r \in 1 .. Len(request) : DoReadEnd(r)
    \/ \E c \in 1 .. Len(cacheLine) : FetchBegin(c)
    \/ \E c \in 1 .. Len(cacheLine) : FetchReadFile(c)
    \/ \E c \in 1 .. Len(cacheLine) : FetchCommit(c)
    \/ CachePruneCall

ReadSpec ==
    /\ Init
    /\ [][NextRead]_vars
    /\ WF_vars(\E r \in 1 .. Len(request) : DoReadEnd(r))
    /\ WF_vars(\E c \in 1 .. Len(cacheLine) : FetchBegin(c))
    /\ WF_vars(\E c \in 1 .. Len(cacheLine) : FetchReadFile(c))
    /\ WF_vars(\E c \in 1 .. Len(cacheLine) : FetchCommit(c))

(***************************************************************************)
(* One reader at a time on a fixed set of backends: a read handler enters  *)
(* only when every earlier handler has returned (prefetches may still be   *)
(* in flight), and it may ask for any lines of the object.  The transport  *)
(* to the backend does not fail; the drivers' own checks still apply.      *)
(***************************************************************************)
SeqInit ==
    Start([cacheLines : 1 .. SeqMaxCacheLines, prefetchWindow : 0 .. SeqMaxPrefetchWindow])

SeqRead(i, first, last) ==
    /\ \A r \in 1 .. Len(request) : request[r].pc = "done"
    /\ ReadStep(i, first, last, SeqMaxRequests, SeqMaxCacheLineStructs)

SeqReadFile(c) == ReadFileStep(c, {FALSE})

NextSeq ==
    \/ \E b \in BackendIds : Lookup(b)
    \/ \E i \in DOMAIN inodeMap : \E first \in 0 .. MaxLine :
          \E last \in first .. MaxLine : SeqRead(i, first, last)
    \/ \E r \in 1 .. Len(request) : DoReadEnd(r)
    \/ \E c \in 1 .. Len(cacheLine) : FetchBegin(c)
    \/ \E c \in 1 .. Len(cacheLine) : SeqReadFile(c)
    \/ \E c \in 1 .. Len(cacheLine) : FetchCommit(c)
    \/ CachePruneCall

SeqSpec == SeqInit /\ [][NextSeq]_vars

(***************************************************************************)
(* Reloads next to lookups, reads and fetches.  A new configuration maps   *)
(* the dir_names it holds to settings, which may differ from the settings  *)
(* a registered backend was constructed with.  Every goroutine that can    *)
(* take a step eventually takes it, every backend call returns (the        *)
(* transport to the backend does not fail), and the reload worker runs to  *)
(* the end of a reload it has started.                                     *)
(***************************************************************************)
ReloadInit == Start([cacheLines : {1}, prefetchWindow : {0}])

\* reload(newConfig): the configuration and the outcome of every construction
\* are kept for reference
ReloadConfig(newConfig, failed) ==
    /\ ReloadApply(newConfig, failed, ReloadMaxReloads)
    /\ reloadLog' = [count |-> reload.count + 1, newConfig |-> newConfig,
                     failed |-> failed, before |-> backend]

NextReload ==
    \/ \E b \in BackendIds : LookupStep(b, ReloadMaxInodes)
    \/ \E i \in DOMAIN inodeMap :
          ReadStep(i, 0, 0, ReloadMaxRequests, ReloadMaxCacheLineStructs)
    \/ \E r \in 1 .. Len(request) : DoReadEnd(r)
    \/ \E c \in 1 .. Len(cacheLine) : FetchBegin(c)
    \/ \E c \in 1 .. Len(cacheLine) : SeqReadFile(c)
    \/ \E c \in 1 .. Len(cacheLine) : FetchCommit(c)
    \/ CachePruneCall
    \/ \E desired \in SUBSET ReloadDirNames : \E settings \in 1 .. ReloadMaxSettings :
          \E failed \in SUBSET desired :
             ReloadConfig([d \in desired |-> settings], failed)
    \/ \E b \in BackendIds : ReloadDrain(b)
    \/ ReloadDestroy

ReloadSpec ==
    /\ ReloadInit
    /\ [][NextReload]_vars
    /\ WF_vars(\E r \in 1 .. Len(request) : DoReadEnd(r))
    /\ WF_vars(\E c \in 1 .. Len(cacheLine) : FetchBegin(c))
    /\ WF_vars(\E c \in 1 .. Len(cacheLine) : SeqReadFile(c))
    /\ WF_vars(\E c \in 1 .. Len(cacheLine) : FetchCommit(c))
    /\ WF_vars(\E b \in BackendIds : ReloadDrain(b))
    /\ WF_vars(ReloadDestroy)

(***************************************************************************)
(* One read(inode, offset, length) followed byte by byte through the       *)
(* cache-line engine.  The object is byteRead.size bytes long and its byte *)
(* at offset k is the number k + 1; its ETag does not change and the       *)
(* transport does not fail.  The byte range of each line is computed as    *)
(* the drivers compute it (the products are far below the uint64 range),   *)
(* the store answers a range request as an HTTP server does, fetch()       *)
(* stores what the driver returns, cachePrune may be called at any moment  *)
(* the lock is free, and the handler slices the line buffers as            *)
(* specification 4.3 describes.                                            *)
(***************************************************************************)
engineVars == <<config, backend, objectVersion, inodeMap, nextInodeNumber, cacheLine,
                cleanCacheLineLRU, dirtyCacheLineLRU, inboundCacheLineCount, fetchTask,
                request, waitLog, reload, fatal, lookupLog, driverCalls, reloadLog>>

Min(a, b) == IF a <= b THEN a ELSE b

Max(a, b) == IF a >= b THEN a ELSE b

objectBytes(size) == [k \in 1 .. size |-> k]

\* a rangeBegin that skips the first byte of the line
rangeBeginOffByOne(offsetCacheLine, cacheLineSize) == offsetCacheLine * cacheLineSize + 1

\* rangeBegin of readFile
rangeBegin(offsetCacheLine, cacheLineSize) == offsetCacheLine * cacheLineSize

\* a rangeEnd that stops one byte early
rangeEndShort(offsetCacheLine, cacheLineSize) ==
    rangeBegin(offsetCacheLine, cacheLineSize) + cacheLineSize - 2

\* rangeEnd of readFile
rangeEnd(offsetCacheLine, cacheLineSize) ==
    rangeBegin(offsetCacheLine, cacheLineSize) + cacheLineSize - 1

\* the store's answer to GET with "Range: bytes=begin-end": the bytes of the
\* range that exist, or an error when the range starts at or beyond the end
getObjectRange(bytes, begin, end) ==
    IF begin >= Len(bytes) THEN [err |-> TRUE, buf |-> <<>>]
    ELSE [err |-> FALSE, buf |-> SubSeq(bytes, begin + 1, Min(end + 1, Len(bytes)))]

\* readFile of either driver for line offsetCacheLine
readFileRange(bytes, offsetCacheLine, cacheLineSize) ==
    getObjectRange(bytes, rangeBegin(offsetCacheLine, cacheLineSize),
                   rangeEnd(offsetCacheLine, cacheLineSize))

\* the lines covering [offset, offset + length)
firstLine(offset, cacheLineSize) == offset \div cacheLineSize

lastLine(offset, length, cacheLineSize) == (offset + length - 1) \div cacheLineSize

\* the part of the buffer of line l that lies in [offset, offset + length)
lineSlice(buf, l, cacheLineSize, offset, length) ==
    LET lo == Max(offset, l * cacheLineSize) - l * cacheLineSize
        hi == Min(offset + length, (l + 1) * cacheLineSize) - l * cacheLineSize
    IN  SubSeq(buf, lo + 1, Min(hi, Len(buf)))

\* the configurations and the reads of the byte-level workload
ByteInit ==
    /\ EngineStart([cacheLines : 1 .. ByteMaxCacheLines, prefetchWindow : {0}])
    /\ listing = NoListing
    /\ driverCall = NoDriverCall
    /\ mutex = NoMutex
    /\ byteRead \in {[NoByteRead EXCEPT
                          !.size = size, !.cacheLineSize = cacheLineSize,
                          !.offset = offset, !.length = length] :
                         size \in 0 .. MaxObjectSize,
                         cacheLineSize \in 1 .. MaxCacheLineSize,
                         offset \in 0 .. MaxObjectSize + 1,
                         length \in 0 .. MaxObjectSize + 1}
    /\ byteRead.offset + byteRead.length <= MaxObjectSize + 1

\* steps 1 to 3 of read(inode, offset, length): the lines covering the range
\* are looked up, allocated and waited for
ByteReadBegin(i) ==
    /\ ~fatal
    /\ byteRead.pc = "idle"
    /\ Commit(readBegin(Globals, i, firstLine(byteRead.offset, byteRead.cacheLineSize),
                        lastLine(byteRead.offset, byteRead.length, byteRead.cacheLineSize)))
    /\ byteRead' = [byteRead EXCEPT !.pc = "waiting"]
    /\ UNCHANGED <<config, backend, objectVersion, nextInodeNumber, reload>>
    /\ UNCHANGED <<lookupLog, driverCalls, reloadLog, listing, driverCall, mutex>>

\* fetch(): readFileWrapper outside the lock.  The driver computes the byte
\* range of readFileInput.offsetCacheLine and the store answers the range
\* request; the precondition and the eTag are those of readFile.
ByteReadFile(c) ==
    /\ ~fatal
    /\ fetchTask[c].pc = "io"
    /\ LET d == backend[fetchTask[c].backend].dirName
           l == fetchTask[c].readFileInput.offsetCacheLine
           head == readFileWrapper(BackendType(d), objectVersion[d],
                                   [fetchTask[c].readFileInput EXCEPT !.offsetCacheLine = 0])
           res == readFileRange(objectBytes(byteRead.size), l, byteRead.cacheLineSize)
       IN  /\ fetchTask' = [fetchTask EXCEPT
                               ![c].pc = "commit",
                               ![c].calls = @ + 1,
                               ![c].err = head.err \/ res.err,
                               ![c].readFileOutput =
                                   IF head.err \/ res.err THEN NoOutput
                                   ELSE [eTag |-> head.out.eTag, buf |-> res.buf]]
           /\ byteRead' = [byteRead EXCEPT
                              !.ranges = @ \cup {<<l, rangeBegin(l, byteRead.cacheLineSize),
                                                   rangeEnd(l, byteRead.cacheLineSize)>>}]
    /\ driverCalls' = driverCalls \cup {"readFile"}
    /\ UNCHANGED <<config, backend, objectVersion, inodeMap, nextInodeNumber, cacheLine,
                   cleanCacheLineLRU, dirtyCacheLineLRU, inboundCacheLineCount, request,
                   waitLog, reload, fatal>>
    /\ UNCHANGED <<lookupLog, reloadLog, listing, driverCall, mutex>>

\* step 5 of read: the held lines are touched, their buffers are sliced to
\* the requested range and concatenated
ByteReadEnd(r) ==
    /\ ~fatal
    /\ byteRead.pc = "waiting"
    /\ request[r].pc = "waiting"
    /\ request[r].waitGroup = 0
    /\ LET g == readEnd(Globals, r)
           held == request[r].held
       IN  /\ Commit(g)
           /\ byteRead' =
                 IF g.fatal THEN byteRead
                 ELSE [byteRead EXCEPT
                          !.pc = "done",
                          !.result = assemble(
                              [k \in 1 .. Len(held) |->
                                  lineSlice(cacheLine[held[k]].content,
                                            cacheLine[held[k]].lineNumber,
                                            byteRead.cacheLineSize, byteRead.offset,
                                            byteRead.length)])]
    /\ UNCHANGED <<config, backend, objectVersion, nextInodeNumber, reload>>
    /\ UNCHANGED <<lookupLog, driverCalls, reloadLog, listing, driverCall, mutex>>

NextByte ==
    \/ \E b \in BackendIds : Lookup(b)
    \/ \E i \in DOMAIN inodeMap : ByteReadBegin(i)
    \/ \E c \in 1 .. Len(cacheLine) : FetchBegin(c)
    \/ \E c \in 1 .. Len(cacheLine) : ByteReadFile(c)
    \/ \E c \in 1 .. Len(cacheLine) : FetchCommit(c)
    \/ CachePruneCall
    \/ \E r \in 1 .. Len(request) : ByteReadEnd(r)

ByteSpec == ByteInit /\ [][NextByte]_vars

(***************************************************************************)
(* Directory listing.  Object keys and names are sequences of characters.  *)
(* A bucket holds a subset of KeyUniverse, which is written in the order   *)
(* in which the stores list keys; the directory that is listed is the one  *)
(* whose full path (backend prefix and directory path) is fullDirPath.     *)
(***************************************************************************)
KeyUniverse ==
    << <<"p", "/", "a", "/", "x">>,
       <<"p", "/", "a", "/", "y">>,
       <<"p", "/", "b">>,
       <<"p", "/", "c", "/", "x">>,
       <<"p", "/", "d">>,
       <<"q">> >>

fullDirPath == <<"p", "/">>

Slash == "/"

stringsHasPrefix(s, prefix) ==
    Len(s) >= Len(prefix) /\ SubSeq(s, 1, Len(prefix)) = prefix

stringsTrimPrefix(s, prefix) ==
    IF stringsHasPrefix(s, prefix) THEN SubSeq(s, Len(prefix) + 1, Len(s)) ELSE s

stringsHasSuffix(s, suffix) ==
    Len(s) >= Len(suffix) /\ SubSeq(s, Len(s) - Len(suffix) + 1, Len(s)) = suffix

stringsTrimSuffix(s, suffix) ==
    IF stringsHasSuffix(s, suffix) THEN SubSeq(s, 1, Len(s) - Len(suffix)) ELSE s

\* the position, from 0, of the first ch in s, or -1
stringsIndex(s, ch) ==
    IF \E k \in 1 .. Len(s) : s[k] = ch
    THEN (CHOOSE k \in 1 .. Len(s) : s[k] = ch /\ \A j \in 1 .. k - 1 : s[j] # ch) - 1
    ELSE -1

positionOf(seq, x) ==
    IF \E k \in 1 .. Len(seq) : seq[k] = x
    THEN CHOOSE k \in 1 .. Len(seq) : seq[k] = x
    ELSE 0

\* the keys of the bucket that start with prefix, in listing order
RECURSIVE keysFrom(_, _, _)
keysFrom(i, bucket, prefix) ==
    IF i > Len(KeyUniverse) THEN <<>>
    ELSE (IF i \in bucket /\ stringsHasPrefix(KeyUniverse[i], prefix)
          THEN <<KeyUniverse[i]>> ELSE <<>>)
         \o keysFrom(i + 1, bucket, prefix)

\* one page of a listing: the items after the one the token names, at most
\* count of them (all of them when no count is given), and the token of the
\* next page, empty when nothing is left
pageOf(all, token, count) ==
    LET start == IF token = EmptyString THEN 0 ELSE positionOf(all, token)
        n == IF count = 0 THEN Len(all) ELSE count
        entries == SubSeq(all, start + 1, Min(start + n, Len(all)))
    IN  [entries |-> entries,
         token |-> IF start + n < Len(all) THEN entries[Len(entries)] ELSE EmptyString]

\* AIStore's ListObjectsPage with a prefix and no other flag: every key
\* under the prefix, at any depth
aisListObjectsPage(bucket, prefix, token, pageSize) ==
    pageOf(keysFrom(1, bucket, prefix), token, pageSize)

\* keys under the prefix with the part of a key after the first delimiter
\* rolled up into one common prefix
RECURSIVE rollUp(_, _, _)
rollUp(keys, prefix, delimiter) ==
    IF keys = <<>> THEN <<>>
    ELSE LET rel == stringsTrimPrefix(Head(keys), prefix)
             idx == stringsIndex(rel, delimiter)
             item == IF idx = -1 THEN Head(keys) ELSE prefix \o SubSeq(rel, 1, idx + 1)
             rest == rollUp(Tail(keys), prefix, delimiter)
         IN  IF rest # <<>> /\ Head(rest) = item THEN rest ELSE <<item>> \o rest

isCommonPrefix(item) == stringsHasSuffix(item, <<Slash>>)

isKey(item) == ~isCommonPrefix(item)

\* S3's ListObjectsV2 with Prefix, Delimiter "/", ContinuationToken, MaxKeys
s3ListObjectsV2(bucket, prefix, delimiter, token, maxKeys) ==
    LET page == pageOf(rollUp(keysFrom(1, bucket, prefix), prefix, delimiter), token, maxKeys)
    IN  [CommonPrefixes |-> SelectSeq(page.entries, isCommonPrefix),
         Contents |-> SelectSeq(page.entries, isKey),
         NextContinuationToken |-> page.token]

\* the loop of the AIStore driver over the entries of one page
RECURSIVE aistoreEntries(_, _)
aistoreEntries(entries, out) ==
    IF entries = <<>> THEN out
    ELSE LET relativeName == stringsTrimPrefix(Head(entries), fullDirPath)
             slashIdx == stringsIndex(relativeName, Slash)
             subdirName == SubSeq(relativeName, 1, slashIdx)
             found == \E k \in 1 .. Len(out.subdirectory) : out.subdirectory[k] = subdirName
         IN  aistoreEntries(Tail(entries),
                 IF relativeName = EmptyString THEN out
                 ELSE IF slashIdx # -1
                      THEN (IF found THEN out
                            ELSE [out EXCEPT !.subdirectory = Append(@, subdirName)])
                      ELSE [out EXCEPT !.file = Append(@, relativeName)])

aistoreListDirectory(bucket, listDirectoryInput) ==
    LET lsoResult == aisListObjectsPage(bucket, fullDirPath,
                                        listDirectoryInput.continuationToken,
                                        listDirectoryInput.maxItems)
        out == aistoreEntries(lsoResult.entries, [subdirectory |-> <<>>, file |-> <<>>])
    IN  [subdirectory |-> out.subdirectory,
         file |-> out.file,
         nextContinuationToken |-> lsoResult.token,
         isTruncated |-> lsoResult.token # EmptyString]

s3ListDirectory(bucket, listDirectoryInput) ==
    LET s3ListObjectsV2Output == s3ListObjectsV2(bucket, fullDirPath, Slash,
                                                 listDirectoryInput.continuationToken,
                                                 listDirectoryInput.maxItems)
    IN  [subdirectory |->
             [k \in 1 .. Len(s3ListObjectsV2Output.CommonPrefixes) |->
                 stringsTrimSuffix(stringsTrimPrefix(s3ListObjectsV2Output.CommonPrefixes[k],
                                                     fullDirPath), <<Slash>>)],
         file |->
             [k \in 1 .. Len(s3ListObjectsV2Output.Contents) |->
                 stringsTrimPrefix(s3ListObjectsV2Output.Contents[k], fullDirPath)],
         nextContinuationToken |-> s3ListObjectsV2Output.NextContinuationToken,
         isTruncated |-> s3ListObjectsV2Output.NextContinuationToken # EmptyString]

listDirectory(type, bucket, listDirectoryInput) ==
    IF type = "AIStore" THEN aistoreListDirectory(bucket, listDirectoryInput)
    ELSE s3ListDirectory(bucket, listDirectoryInput)

DirInit ==
    /\ EngineStart([cacheLines : {1}, prefetchWindow : {0}])
    /\ byteRead = NoByteRead
    /\ driverCall = NoDriverCall
    /\ mutex = NoMutex
    /\ listing \in {[NoListing EXCEPT !.pc = "listing", !.type = type,
                                       !.bucket = bucket, !.maxItems = maxItems] :
                        type \in {"S3", "AIStore"},
                        bucket \in SUBSET (1 .. Len(KeyUniverse)),
                        maxItems \in 0 .. MaxPageSize}

\* one page of the enumeration: the driver is called with the token of the
\* previous page and what it reports is handed on
ListPage ==
    /\ listing.pc = "listing"
    /\ LET out == listDirectory(listing.type, listing.bucket,
                                 [maxItems |-> listing.maxItems,
                                  continuationToken |-> listing.continuationToken])
       IN  listing' = [listing EXCEPT
                          !.calls = @ + 1,
                          !.subdirectory = @ \o out.subdirectory,
                          !.file = @ \o out.file,
                          !.continuationToken = out.nextContinuationToken,
                          !.pc = IF out.isTruncated THEN "listing" ELSE "done"]
    /\ UNCHANGED <<engineVars, byteRead, driverCall, mutex>>

NextDir == ListPage

DirSpec == DirInit /\ [][NextDir]_vars

(***************************************************************************)
(* Vocabulary of the properties.                                           *)
(***************************************************************************)
CacheLineIds == 1 .. Len(cacheLine)

RequestIds == 1 .. Len(request)

SeqRange(s) == {s[k] : k \in 1 .. Len(s)}

Occurrences(s, e) == Cardinality({k \in 1 .. Len(s) : s[k] = e})

\* the lines indexed by the cache map of some inode of the table
Indexed == {c \in CacheLineIds : \E i \in DOMAIN inodeMap :
                \E l \in DOMAIN inodeMap[i].cache : inodeMap[i].cache[l] = c}

\* the lines that exist: indexed, on the clean LRU, or still being fetched
Live == Indexed \cup SeqRange(cleanCacheLineLRU)
            \cup {c \in CacheLineIds : cacheLine[c].state = CacheLineInbound}

SameLine(c1, c2) ==
    /\ cacheLine[c1].inodeNumber = cacheLine[c2].inodeNumber
    /\ cacheLine[c1].lineNumber = cacheLine[c2].lineNumber

\* the buffer the fetch of line c produced for its readers
FetchResult(c) ==
    IF fetchTask[c].err \/ fetchTask[c].calls = 0
    THEN <<>>
    ELSE fetchTask[c].readFileOutput.buf

(***************************************************************************)
(* C1 (coalescing).  While a line is absent or Inbound, all readers and    *)
(* prefetches of its (inode, line number) share one cacheLineStruct and    *)
(* one fetch: no two unfinished fetches work on the same pair, a fetch     *)
(* issues at most one read_file call, exactly one by the time it is done   *)
(* if it found its inode when it started, and every reader that attached   *)
(* to the line gets the buffer that one call produced.                     *)
(***************************************************************************)
C1_Coalescing ==
    /\ \A c1 \in CacheLineIds : \A c2 \in CacheLineIds :
          /\ fetchTask[c1].pc # "done"
          /\ fetchTask[c2].pc # "done"
          /\ SameLine(c1, c2)
          => c1 = c2
    /\ \A c \in CacheLineIds :
          /\ fetchTask[c].calls <= 1
          /\ fetchTask[c].pc = "done" /\ fetchTask[c].backend # 0 => fetchTask[c].calls = 1
          /\ fetchTask[c].pc \in {"begin", "io"} => fetchTask[c].calls = 0
    /\ \A r \in RequestIds : \A k \in 1 .. Len(request[r].held) :
          LET c == request[r].held[k]
          IN  /\ request[r].pc = "done"
              /\ r \in SeqRange(waitLog[c].attached)
              => request[r].slices[k] = FetchResult(c)

\* two readers coalesced on one line, both served by its single read_file call
C1_Witness ==
    \E c \in CacheLineIds :
        /\ Len(waitLog[c].attached) = 2
        /\ fetchTask[c].calls = 1
        /\ ~fetchTask[c].err
        /\ \A r \in SeqRange(waitLog[c].attached) :
              /\ request[r].pc = "done"
              /\ request[r].slices # <<>>
              /\ request[r].slices[1] # <<>>

(***************************************************************************)
(* C2 (uniqueness).  No two live cache lines carry the same (inode number, *)
(* line number), and a cache-map entry leads to a line of that very pair.  *)
(***************************************************************************)
C2_Uniqueness ==
    /\ \A c1 \in Live : \A c2 \in Live : SameLine(c1, c2) => c1 = c2
    /\ \A i \in DOMAIN inodeMap : \A l \in DOMAIN inodeMap[i].cache :
          /\ cacheLine[inodeMap[i].cache[l]].inodeNumber = i
          /\ cacheLine[inodeMap[i].cache[l]].lineNumber = l

\* a pair was evicted and allocated again: two structs for it, one of them live
C2_Witness ==
    \E c1 \in CacheLineIds : \E c2 \in CacheLineIds :
        /\ c1 # c2
        /\ SameLine(c1, c2)
        /\ c2 \in Live
        /\ c1 \notin Live

(***************************************************************************)
(* C3 (notification).  While a line is Inbound nobody has been released    *)
(* and its waiter list holds exactly the requests that attached; once it   *)
(* has left Inbound every attached request has been released exactly once, *)
(* each release saw a state other than Inbound, and the waiter list is     *)
(* empty.  A request's WaitGroup counts its releases still to come.        *)
(***************************************************************************)
C3_Notification ==
    /\ \A c \in CacheLineIds :
          LET released == [k \in 1 .. Len(waitLog[c].notified) |->
                              waitLog[c].notified[k].waiter]
          IN  /\ \A k \in 1 .. Len(waitLog[c].notified) :
                    waitLog[c].notified[k].state # CacheLineInbound
              /\ \A r \in RequestIds : Occurrences(waitLog[c].attached, r) <= 1
              /\ IF cacheLine[c].state = CacheLineInbound
                 THEN /\ released = <<>>
                      /\ cacheLine[c].waiters = waitLog[c].attached
                 ELSE /\ released = waitLog[c].attached
                      /\ cacheLine[c].waiters = <<>>
    /\ \A r \in RequestIds :
          request[r].waitGroup =
              Cardinality({c \in CacheLineIds : r \in SeqRange(cacheLine[c].waiters)})

\* a line with two waiters has been fetched and both have been released
C3_Witness ==
    \E c \in CacheLineIds :
        /\ cacheLine[c].state = CacheLineClean
        /\ Len(waitLog[c].notified) = 2
        /\ cacheLine[c].waiters = <<>>

(***************************************************************************)
(* C4 (capacity).  As claimed: whenever the lock is free,                  *)
(* inboundCacheLineCount + Len(cleanCacheLineLRU) <= cacheLines.           *)
(***************************************************************************)
CacheSum(inbound, lru) == inbound + Len(lru)

C4_Capacity ==
    CacheSum(inboundCacheLineCount, cleanCacheLineLRU) <= config.cacheLines

(***************************************************************************)
(* C5 (LRU placement).  As claimed: whenever the lock is free, a           *)
(* cacheLineStruct is an element of the clean LRU if and only if its state *)
(* is Clean, no line is on the clean LRU twice, and an Inbound line is not *)
(* on it.                                                                  *)
(***************************************************************************)
C5_LruPlacement ==
    \A c \in CacheLineIds :
        /\ Occurrences(cleanCacheLineLRU, c) <= 1
        /\ c \in SeqRange(cleanCacheLineLRU) <=> cacheLine[c].state = CacheLineClean
        /\ cacheLine[c].state = CacheLineInbound => c \notin SeqRange(cleanCacheLineLRU)

(***************************************************************************)
(* C6 (fetch completing after inode removal).  As claimed: a fetch that    *)
(* finds its inode gone discards the buffer, leaves the line off the clean *)
(* LRU and out of every cache map, and releases the waiters.               *)
(***************************************************************************)
C6_MissingInodeDiscard ==
    \A c \in CacheLineIds :
        fetchTask[c].pc = "done" /\ fetchTask[c].missingInode /\ ~fatal
        => /\ c \notin SeqRange(cleanCacheLineLRU)
           /\ c \notin Indexed
           /\ cacheLine[c].content = <<>>
           /\ cacheLine[c].waiters = <<>>

(***************************************************************************)
(* C7 (backend teardown).  As claimed: once a backend has been removed, no *)
(* live cache line belongs to one of its inodes, its context is destroyed  *)
(* and the root directory does not list it.                                *)
(***************************************************************************)
C7_BackendTeardown ==
    \A b \in BackendIds :
        backend[b].state = "removed" /\ ~fatal
        => /\ backend[b].context = "destroyed"
           /\ InodesOf(b) = {}
           /\ \A c \in Live : waitLog[c].backend # b

(***************************************************************************)
(* C8 (teardown ordering).  A destroyed driver context belongs to a        *)
(* backend with no inode left in the table, no Inbound line and no fetch   *)
(* that is inside, or about to enter, its read_file call.                  *)
(***************************************************************************)
C8_TeardownOrdering ==
    \A b \in BackendIds :
        backend[b].context = "destroyed"
        => /\ InodesOf(b) = {}
           /\ backendInboundCount(b) = 0
           /\ \A c \in CacheLineIds :
                 fetchTask[c].backend = b => fetchTask[c].pc \notin {"io", "commit"}

\* a backend was destroyed after a fetch against it had made its read_file call
C8_Witness ==
    \E b \in BackendIds : \E c \in CacheLineIds :
        /\ backend[b].context = "destroyed"
        /\ fetchTask[c].backend = b
        /\ fetchTask[c].calls = 1
        /\ fetchTask[c].missingInode

(***************************************************************************)
(* C9 (ETag precondition).  As claimed: every read_file call of a fetch    *)
(* carries, as ifMatch, the ETag recorded for the file.                    *)
(***************************************************************************)
C9_IfMatch ==
    \A c \in CacheLineIds :
        fetchTask[c].pc \in {"io", "commit"}
        => fetchTask[c].readFileInput.ifMatch = waitLog[c].inodeETag

(***************************************************************************)
(* C10 (stale handle).  As claimed: a read never returns bytes of a        *)
(* version other than the one the handle's open-time ETag identifies.      *)
(***************************************************************************)
C10_StaleHandle ==
    \A r \in RequestIds :
        request[r].pc = "done"
        => \A k \in 1 .. Len(request[r].slices) :
              \A j \in 1 .. Len(request[r].slices[k]) :
                  ETagOf(request[r].slices[k][j].version) = request[r].eTag

\* the chunks a finished request returned
Returned(r) == SeqRange(assemble(request[r].slices))

(***************************************************************************)
(* C11 (single-snapshot reads).  As claimed: the reads on one handle never *)
(* return chunks of two different versions of the object, neither within   *)
(* one read nor across the reads of the handle.                            *)
(***************************************************************************)
C11_SingleSnapshot ==
    \A r1 \in RequestIds : \A r2 \in RequestIds :
        /\ request[r1].pc = "done"
        /\ request[r2].pc = "done"
        /\ request[r1].inodeNumber = request[r2].inodeNumber
        => \A x \in Returned(r1) : \A y \in Returned(r2) : x.version = y.version

(***************************************************************************)
(* C12 (fetch failure is confined).  The critical section that ends a      *)
(* failed fetch of line c leaves c Clean with an empty buffer and an empty *)
(* ETag at the MRU end of the clean LRU, releases each waiter of c once,   *)
(* lowers inboundCacheLineCount by one, allocates nothing and changes no   *)
(* other cache line and no other LRU position; the fetch has made one      *)
(* read_file call and takes no further step.                               *)
(***************************************************************************)
C12_FailureConfined ==
    [][\A c \in CacheLineIds :
          /\ (fetchTask[c].pc = "commit" /\ fetchTask[c].err /\ fetchTask'[c] # fetchTask[c])
             => /\ fetchTask'[c].pc = "done"
                /\ fetchTask'[c].calls = 1
                /\ cacheLine'[c].state = CacheLineClean
                /\ cacheLine'[c].content = <<>>
                /\ cacheLine'[c].eTag = EmptyString
                /\ cacheLine'[c].waiters = <<>>
                /\ \A r \in RequestIds :
                      request'[r].waitGroup =
                          request[r].waitGroup - Occurrences(cacheLine[c].waiters, r)
                /\ inboundCacheLineCount' = inboundCacheLineCount - 1
                /\ cleanCacheLineLRU' = Append(cleanCacheLineLRU, c)
                /\ Len(cacheLine') = Len(cacheLine)
                /\ \A c2 \in CacheLineIds \ {c} : cacheLine'[c2] = cacheLine[c2]
                /\ \A i \in DOMAIN inodeMap :
                      /\ i \in DOMAIN inodeMap'
                      /\ inodeMap'[i].cache = inodeMap[i].cache
          /\ (fetchTask[c].pc = "done" /\ fetchTask[c].err)
             => fetchTask'[c] = fetchTask[c]]_vars

\* a failed fetch has released its waiter and sits behind an untouched Clean line
C12_Witness ==
    \E c \in CacheLineIds : \E c2 \in CacheLineIds :
        /\ fetchTask[c].pc = "done"
        /\ fetchTask[c].err
        /\ fetchTask[c].calls = 1
        /\ waitLog[c].notified # <<>>
        /\ cacheLine[c].content = <<>>
        /\ cacheLine[c2].content # <<>>
        /\ cleanCacheLineLRU = <<c2, c>>

(***************************************************************************)
(* C13 (no deadlock at minimum capacity).  With cacheLines = 1, every read *)
(* handler that has entered its wait eventually returns, for any number of *)
(* lines, concurrent readers and prefetch window, when every backend call  *)
(* returns.                                                                *)
(***************************************************************************)
C13_NoDeadlock ==
    \A r \in 1 .. MaxRequests :
        (config.cacheLines = 1 /\ r \in RequestIds /\ request[r].pc = "waiting")
        ~> (r \in RequestIds /\ request[r].pc = "done")

\* the subsequence of s of the elements that are not in S
Without(s, S) == SelectSeq(s, LAMBDA x : x \notin S)

\* read_file calls made so far by the fetches of the cacheLineStructs in S
RECURSIVE CallsOf(_)
CallsOf(S) ==
    IF S = {} THEN 0
    ELSE LET c == CHOOSE x \in S : TRUE IN fetchTask[c].calls + CallsOf(S \ {c})

\* read_file calls made so far for line l
CallsForLine(l) == CallsOf({c \in CacheLineIds : cacheLine[c].lineNumber = l})

OneLineRead(r, l) == request[r].first = l /\ request[r].last = l

(***************************************************************************)
(* C14 (LRU eviction order).  As claimed.  The clean LRU is ordered by     *)
(* recency: a step that evicts removes lines from the LRU end only, a      *)
(* completed fetch enters at the MRU end, and the lines a returning read   *)
(* touches move to the MRU end while the others keep their order.  With    *)
(* cacheLines = 2 and prefetchWindow = 0, once one-line reads of A, B, C   *)
(* and A again (A, B, C distinct) have returned, two read_file calls were  *)
(* made for A, one each for B and C, and the clean LRU holds the line of C *)
(* followed by the second line of A.                                       *)
(***************************************************************************)
C14_EvictionOrder ==
    /\ [](/\ config.cacheLines = 2
          /\ config.prefetchWindow = 0
          /\ Len(request) = 4
          /\ \A r \in 1 .. 4 : request[r].pc = "done" /\ request[r].first = request[r].last
          /\ request[4].first = request[1].first
          /\ request[1].first # request[2].first
          /\ request[1].first # request[3].first
          /\ request[2].first # request[3].first
          => /\ Len(cacheLine) = 4
             /\ \A r \in 1 .. 4 : cacheLine[r].lineNumber = request[r].first
             /\ CallsForLine(request[1].first) = 2
             /\ CallsForLine(request[2].first) = 1
             /\ CallsForLine(request[3].first) = 1
             /\ cleanCacheLineLRU = <<3, 4>>)
    /\ [][/\ Len(cleanCacheLineLRU') < Len(cleanCacheLineLRU)
             => \E k \in 1 .. Len(cleanCacheLineLRU) :
                   cleanCacheLineLRU' = SubSeq(cleanCacheLineLRU, k + 1, Len(cleanCacheLineLRU))
          /\ \A c \in CacheLineIds :
                fetchTask[c].pc # "done" /\ fetchTask'[c].pc = "done"
                => cleanCacheLineLRU' = Append(cleanCacheLineLRU, c)
          /\ \A r \in RequestIds :
                request[r].pc = "waiting" /\ request'[r].pc = "done"
                => LET T == SeqRange(request[r].held)
                       n == Len(cleanCacheLineLRU)
                   IN  /\ Len(cleanCacheLineLRU') = n
                       /\ Without(cleanCacheLineLRU', T) = Without(cleanCacheLineLRU, T)
                       /\ SeqRange(SubSeq(cleanCacheLineLRU', n - Cardinality(T) + 1, n)) = T
         ]_vars

\* what the first critical section of the read that has just entered did:
\* it allocated exactly the lines of first .. last and, when line first was
\* absent, of first+1 .. first+prefetchWindow that the inode's cache map did
\* not hold, each Inbound with a fetch about to start, and the reader waits
\* only on lines of first .. last
ScheduledExactly ==
    Len(request') > Len(request)
    => LET r == Len(request')
           i == request'[r].inodeNumber
           first == request'[r].first
           last == request'[r].last
           before == DOMAIN inodeMap[i].cache
           wanted == (first .. last) \cup
                     (IF first \in before THEN {}
                      ELSE first + 1 .. first + config.prefetchWindow)
           newIds == Len(cacheLine) + 1 .. Len(cacheLine')
           new == {cacheLine'[c].lineNumber : c \in newIds}
       IN  /\ new = wanted \ before
           /\ Cardinality(new) = Cardinality(newIds)
           /\ \A c \in newIds : /\ cacheLine'[c].state = CacheLineInbound
                                /\ cacheLine'[c].inodeNumber = i
                                /\ fetchTask'[c].pc = "begin"
           /\ \A c \in 1 .. Len(cacheLine') :
                 r \in SeqRange(cacheLine'[c].waiters)
                 => cacheLine'[c].lineNumber \in first .. last
           /\ SeqRange(request'[r].held) \subseteq 1 .. Len(cacheLine')
           /\ \A k \in 1 .. Len(request'[r].held) :
                 cacheLine'[request'[r].held[k]].lineNumber = first + k - 1

\* a one-line read of line 0 on a cold cache, followed or not by a read of
\* lines 1 .. prefetchWindow
PrefetchScenario ==
    /\ Len(request) >= 1
    /\ OneLineRead(1, 0)
    /\ \/ Len(request) = 1
       \/ /\ Len(request) = 2
          /\ config.prefetchWindow >= 1
          /\ request[2].first = 1
          /\ request[2].last = config.prefetchWindow

\* prefetchWindow + 1 lines exist and as many read_file calls are made, none
\* of them caused by the second read
PrefetchScenarioCalls ==
    /\ Len(cacheLine) = config.prefetchWindow + 1
    /\ \A c \in CacheLineIds : cacheLine[c].lineNumber = c - 1
    /\ \A c \in CacheLineIds : fetchTask[c].calls <= 1
    /\ \A c \in CacheLineIds : fetchTask[c].pc = "done" => fetchTask[c].calls = 1

(***************************************************************************)
(* C15 (prefetch).  As claimed: a read schedules exactly the absent lines  *)
(* of its range and, on a miss of its first line, of the prefetch window,  *)
(* and waits for none of the prefetched lines; after a one-line read of    *)
(* line 0 on a cold cache, followed or not by a read of lines              *)
(* 1..prefetchWindow, prefetchWindow + 1 read_file calls are made (4 for a *)
(* window of 3), none of them caused by the second read.                   *)
(***************************************************************************)
C15_Prefetch ==
    /\ [](PrefetchScenario => PrefetchScenarioCalls)
    /\ [][ScheduledExactly]_vars

(***************************************************************************)
(* C15, amended.  The scheduling is as claimed.  The counts of the         *)
(* scenario hold as long as no line has been evicted: every                *)
(* cacheLineStruct allocated so far is still in its inode's cache map.     *)
(***************************************************************************)
C15_PrefetchAmended ==
    /\ []((PrefetchScenario /\ CacheLineIds \subseteq Indexed) => PrefetchScenarioCalls)
    /\ [][ScheduledExactly]_vars

\* window 3: line 0 was read, then lines 1..3; four calls in all, no line was
\* evicted, and the first reader had returned before the prefetches were all
\* complete
C15_Witness ==
    /\ config.prefetchWindow = 3
    /\ Len(request) = 2
    /\ OneLineRead(1, 0)
    /\ request[1].pc = "done"
    /\ request[2].first = 1 /\ request[2].last = 3
    /\ request[2].pc = "done"
    /\ \A k \in 1 .. 3 : request[2].slices[k] # <<>>
    /\ waitLog[2].attached = <<2>>
    /\ CacheLineIds \subseteq Indexed
    /\ CallsOf(CacheLineIds) = 4

(***************************************************************************)
(* C16 (read round trip).  For every size, cache line size and cacheLines  *)
(* >= 1: a read(inode, 0, size) that returns, returns exactly the bytes of *)
(* the object, and every fetch of line n asks for the byte range from      *)
(* n * cacheLineSize to n * cacheLineSize + cacheLineSize - 1.             *)
(***************************************************************************)
C16_RoundTrip ==
    /\ \A t \in byteRead.ranges :
          /\ t[2] = t[1] * byteRead.cacheLineSize
          /\ t[3] = t[1] * byteRead.cacheLineSize + byteRead.cacheLineSize - 1
    /\ \A c \in CacheLineIds :
          fetchTask[c].calls > 0
          => \E t \in byteRead.ranges : t[1] = cacheLine[c].lineNumber
    /\ byteRead.pc = "done" /\ byteRead.offset = 0 /\ byteRead.length = byteRead.size
       => byteRead.result = objectBytes(byteRead.size)

\* with one slot, a whole object of three lines, the last one short, was read
C16_Witness ==
    /\ config.cacheLines = 1
    /\ byteRead.pc = "done"
    /\ byteRead.offset = 0
    /\ byteRead.size = 5
    /\ byteRead.length = 5
    /\ byteRead.cacheLineSize = 2
    /\ Cardinality(byteRead.ranges) = 3
    /\ byteRead.result = <<1, 2, 3, 4, 5>>

(***************************************************************************)
(* C17 (boundary reads).  A read(inode, offset, length) that returns,      *)
(* returns exactly the bytes of the object from offset up to, not          *)
(* including, min(offset + length, size), each once and in order; at       *)
(* offset = size, and beyond, it returns no byte.                          *)
(***************************************************************************)
C17_BoundaryReads ==
    byteRead.pc = "done"
    => /\ byteRead.result =
              SubSeq(objectBytes(byteRead.size), byteRead.offset + 1,
                     Min(byteRead.offset + byteRead.length, byteRead.size))
       /\ byteRead.offset >= byteRead.size => byteRead.result = <<>>

\* a read that starts inside a line, crosses a line boundary and runs into
\* the end of the object
C17_Witness ==
    /\ byteRead.pc = "done"
    /\ byteRead.cacheLineSize = 2
    /\ byteRead.size = 5
    /\ byteRead.offset = 3
    /\ byteRead.length = 3
    /\ Len(request[1].held) = 2
    /\ byteRead.result = <<4, 5>>

\* the files and the subdirectories of the listed directory
FilesOf(bucket) ==
    {stringsTrimPrefix(KeyUniverse[i], fullDirPath) :
        i \in {j \in bucket : /\ stringsHasPrefix(KeyUniverse[j], fullDirPath)
                              /\ Slash \notin SeqRange(stringsTrimPrefix(KeyUniverse[j],
                                                                         fullDirPath))}}

SubdirectoriesOf(bucket) ==
    {<<stringsTrimPrefix(KeyUniverse[i], fullDirPath)[1]>> :
        i \in {j \in bucket : /\ stringsHasPrefix(KeyUniverse[j], fullDirPath)
                              /\ Slash \in SeqRange(stringsTrimPrefix(KeyUniverse[j],
                                                                      fullDirPath))}}

(***************************************************************************)
(* C18 (directory enumeration).  When the pages of a directory have been   *)
(* followed from the first one until the token is empty, every file and    *)
(* every subdirectory of the directory has been reported exactly once,     *)
(* whatever the driver and the page size.                                  *)
(***************************************************************************)
C18_ExactlyOnce ==
    listing.pc = "done"
    => /\ SeqRange(listing.file) = FilesOf(listing.bucket)
       /\ Len(listing.file) = Cardinality(FilesOf(listing.bucket))
       /\ SeqRange(listing.subdirectory) = SubdirectoriesOf(listing.bucket)
       /\ Len(listing.subdirectory) = Cardinality(SubdirectoriesOf(listing.bucket))

\* the registered backends whose dir_name the configuration of the last reload holds
KeptBy(log) ==
    {b \in 1 .. Len(log.before) : /\ log.before[b].state = "active"
                                  /\ log.before[b].dirName \in DOMAIN log.newConfig}

\* the names the last reload had to add, and the backends it had to remove
ToAdd(log) ==
    DOMAIN log.newConfig \ {log.before[b].dirName : b \in KeptBy(log)}

ToRemove(log) ==
    {b \in 1 .. Len(log.before) : /\ log.before[b].state = "active"
                                  /\ log.before[b].dirName \notin DOMAIN log.newConfig}

\* the cache lines of the inodes of backend b
LinesOf(b) == {c \in CacheLineIds : waitLog[c].backend = b}

(***************************************************************************)
(* C21 (reload never modifies a backend).  A backend whose dir_name is in  *)
(* the old and in the new configuration stays as it was, also when the new *)
(* configuration gives it other settings: its registry entry, its driver   *)
(* context, its inodes and its cache lines are not changed by any step of  *)
(* the reload.  The reload adds a backend exactly for the names that were  *)
(* not registered (and could be constructed) and removes exactly the       *)
(* backends whose name the new configuration does not hold.                *)
(***************************************************************************)
C21_NoModify ==
    /\ [](\A b \in KeptBy(reloadLog) :
             /\ backend[b] = reloadLog.before[b]
             /\ backend[b].context = "live")
    /\ [][/\ \A b \in BackendIds :
                /\ backend'[b].dirName = backend[b].dirName
                /\ backend'[b].settings = backend[b].settings
                /\ backend'[b] # backend[b]
                   => \/ backend[b].state = "pending" /\ backend'[b].state = "active"
                      \/ b \in ToRemove(reloadLog)
          /\ reloadLog' # reloadLog
             => /\ SubSeq(backend', 1, Len(backend)) = backend
                /\ {backend'[b].dirName : b \in Len(backend) + 1 .. Len(backend')}
                      = ToAdd(reloadLog') \ reloadLog'.failed
                /\ Len(backend') - Len(backend)
                      = Cardinality(ToAdd(reloadLog') \ reloadLog'.failed)
                /\ \A b \in Len(backend) + 1 .. Len(backend') :
                      backend'[b].settings = reloadLog'.newConfig[backend'[b].dirName]
                /\ reload'.toRemove = (IF reload'.pc = "remove" THEN ToRemove(reloadLog')
                                       ELSE reload.toRemove)
                /\ ToRemove(reloadLog') # {} => reload'.pc = "remove"
                /\ UNCHANGED <<inodeMap, cacheLine, cleanCacheLineLRU, fetchTask>>
          /\ (reload' # reload \/ reloadLog' # reloadLog)
             => \A b \in KeptBy(reloadLog') :
                   /\ \A i \in InodesOf(b) : i \in DOMAIN inodeMap' /\ inodeMap'[i] = inodeMap[i]
                   /\ \A c \in LinesOf(b) :
                         /\ cacheLine'[c] = cacheLine[c]
                         /\ c \in SeqRange(cleanCacheLineLRU)
                            <=> c \in SeqRange(cleanCacheLineLRU')]_vars

\* a reload has removed one backend and kept another whose settings differ in
\* the new configuration; the kept one still serves its inode and Clean line
C21_Witness ==
    /\ reload.pc = "idle"
    /\ ToRemove(reloadLog) # {}
    /\ \E b \in KeptBy(reloadLog) :
          /\ reloadLog.newConfig[backend[b].dirName] # backend[b].settings
          /\ backend[b].state = "active"
          /\ \E i \in InodesOf(b) : \E l \in DOMAIN inodeMap[i].cache :
                /\ cacheLine[inodeMap[i].cache[l]].state = CacheLineClean
                /\ inodeMap[i].cache[l] \in SeqRange(cleanCacheLineLRU)
                /\ cacheLine[inodeMap[i].cache[l]].content # <<>>

(***************************************************************************)
(* C22 (reload add failure is isolated).  When the driver context of a     *)
(* backend to add cannot be constructed, no registry entry appears for its *)
(* name, the entries of all other backends are what they would be without  *)
(* the failure, and the reload goes on: every other addition is installed  *)
(* and every removal is carried out by the time the reload returns.        *)
(***************************************************************************)
C22_AddFailureIsolated ==
    /\ [](/\ \A d \in reloadLog.failed :
                \A b \in BackendIds :
                   backend[b].dirName = d
                   => b <= Len(reloadLog.before) /\ backend[b] = reloadLog.before[b]
          /\ reloadLog.count > 0 /\ reload.pc = "idle" /\ reload.count = reloadLog.count
             => /\ ActiveNames = {reloadLog.before[b].dirName : b \in KeptBy(reloadLog)}
                                    \cup (ToAdd(reloadLog) \ reloadLog.failed)
                /\ \A b \in BackendIds : backend[b].state \notin {"pending", "draining"}
                /\ \A b \in ToRemove(reloadLog) :
                      backend[b].state = "removed" /\ backend[b].context = "destroyed")
    /\ [][reloadLog' # reloadLog
          => /\ reloadLog'.failed \subseteq ToAdd(reloadLog')
             /\ reloadLog'.failed \cap {backend'[b].dirName : b \in Len(backend) + 1 .. Len(backend')}
                   = {}
             /\ SubSeq(backend', 1, Len(backend)) = backend
             /\ \A d \in ToAdd(reloadLog') \ reloadLog'.failed :
                   \E b \in Len(backend) + 1 .. Len(backend') :
                      /\ backend'[b].dirName = d
                      /\ backend'[b].context = "live"
                      /\ backend'[b].state = IF ToRemove(reloadLog') = {} THEN "active"
                                             ELSE "pending"
             /\ ToRemove(reloadLog') # {}
                => reload'.pc = "remove" /\ reload'.toRemove = ToRemove(reloadLog')]_vars

\* a reload in which one construction failed has returned: another backend
\* was added by it and a third one was removed by it
C22_Witness ==
    /\ reload.pc = "idle"
    /\ reload.count = reloadLog.count
    /\ reloadLog.failed # {}
    /\ ToAdd(reloadLog) \ reloadLog.failed # {}
    /\ ToRemove(reloadLog) # {}
    /\ reloadLog.failed \cap ActiveNames = {}
    /\ ToAdd(reloadLog) \ reloadLog.failed \subseteq ActiveNames

(***************************************************************************)
(* C23 (reload completes).  As claimed: with every backend call returning, *)
(* a reload that has started to remove backends returns, and the wait for  *)
(* the inbound count of a draining backend ends, also when a fetch for     *)
(* that backend completes after its inode was detached.                    *)
(***************************************************************************)
C23_ReloadCompletes ==
    (reload.pc = "remove") ~> (reload.pc = "idle")

(***************************************************************************)
(* One call of readFile or statFile of a driver against an object that may *)
(* be overwritten while the call is in progress.  Both drivers look at the *)
(* object with a HEAD first and, for readFile, fetch the range with a GET  *)
(* afterwards.  An S3 endpoint may or may not honour the If-Match header   *)
(* ("IfMatch not necessarily supported"); AIStore's GET carries none.      *)
(* Next to the call runs a deleteFile of another caller (HeadObject, the   *)
(* comparison, DeleteObject), after which the store holds no object until  *)
(* it is written again.                                                    *)
(***************************************************************************)
MatchMaxVersion == 2

\* the manual comparison after a HeadObject that succeeded for version n.  It
\* is skipped when the answer carries no ETag (S3: ETag == nil) or no checksum
\* (AIStore: Cksum == nil); tagged tells whether the answer carries one.
eTagMismatch(type, n, tagged, ifMatch) ==
    /\ ifMatch # EmptyString
    /\ tagged
    /\ ifMatch # statFileETag(type, n)

\* HeadObject and the comparison, as they open statFile, readFile and
\* deleteFile: TRUE when the driver function returns an error at this point
headAndCompareErr(type, n, tagged, ifMatch) ==
    n = NoObject \/ eTagMismatch(type, n, tagged, ifMatch)

\* (*s3ContextStruct).statFile: HEAD with IfMatch, the manual comparison with
\* the trimmed ETag, and the output built from *s3HeadObjectOutput.ETag, a nil
\* pointer dereference (a panic) when the answer carries no ETag
s3StatFile(n, tagged, input) ==
    IF headAndCompareErr("S3", n, tagged, input.ifMatch)
    THEN [err |-> TRUE, panic |-> FALSE, out |-> NoOutput]
    ELSE IF ~tagged THEN [err |-> FALSE, panic |-> TRUE, out |-> NoOutput]
    ELSE [err |-> FALSE, panic |-> FALSE,
          out |-> [eTag |-> trimETag(s3ETagHeader(n)), buf |-> <<>>]]

\* (*aistoreContextStruct).statFile: HEAD, the comparison with the checksum
\* value, and the output built from props.Cksum.Value().  Value() belongs to
\* the AIStore client library: called on a nil checksum it either yields the
\* empty string or dereferences nil (nilPanics)
aistoreStatFile(n, tagged, nilPanics, input) ==
    IF headAndCompareErr("AIStore", n, tagged, input.ifMatch)
    THEN [err |-> TRUE, panic |-> FALSE, out |-> NoOutput]
    ELSE IF ~tagged /\ nilPanics THEN [err |-> FALSE, panic |-> TRUE, out |-> NoOutput]
    ELSE [err |-> FALSE, panic |-> FALSE,
          out |-> [eTag |-> IF tagged THEN ETagOf(n) ELSE EmptyString, buf |-> <<>>]]

statFileWrapper(type, n, tagged, nilPanics, input) ==
    IF type = "S3" THEN s3StatFile(n, tagged, input)
    ELSE aistoreStatFile(n, tagged, nilPanics, input)

\* the values a caller may pass as ifMatch: none, the eTag statFile returned for
\* some version of the object, or the ETag header as S3 sent it
MatchETags ==
    {EmptyString} \cup {ETagOf(m) : m \in 1 .. MatchMaxVersion + 1}
                  \cup {s3ETagHeader(m) : m \in 1 .. MatchMaxVersion}

\* the version the store holds for the object of the call, NoObject after a
\* deleteFile has removed it
StoreVersion == IF driverCall.exists THEN driverCall.version ELSE NoObject

\* (*aistoreContextStruct).readFile makes no HeadObject when ifMatch is empty
headSkipped(d) == d.type = "AIStore" /\ d.op = "readFile" /\ d.input.ifMatch = EmptyString

\* the HEAD and comparison that open deleteFile: S3 always looks at the object,
\* AIStore only when ifMatch is given; TRUE when deleteFile returns the error
deleteFileHeadErr(type, n, tagged, ifMatch) ==
    IF type = "S3" THEN headAndCompareErr(type, n, tagged, ifMatch)
    ELSE ifMatch # EmptyString /\ headAndCompareErr(type, n, tagged, ifMatch)

\* the store's answer to DeleteObject: AIStore reports an object that is not
\* there; an S3 endpoint that honours the IfMatch of the DeleteObjectInput
\* refuses when the ETag differs and otherwise reports success, object or not
deleteObjectErr(type, n, ifMatch, honoured) ==
    IF type = "S3"
    THEN honoured /\ ifMatch # EmptyString
            /\ (n = NoObject \/ ifMatch # trimETag(s3ETagHeader(n)))
    ELSE n = NoObject

\* GetObject with the Range header and the output readFile builds from the
\* answer: the precondition applies only at an S3 endpoint that honours the
\* IfMatch of the GetObjectInput.  When the answer carries no ETag the S3
\* driver returns an empty eTag; the AIStore driver calls Cksum.Value() on
\* the nil checksum (empty string or nil dereference, nilPanics)
getObject(type, n, tagged, nilPanics, honoured, input) ==
    LET getInput == IF type = "S3" /\ honoured THEN input
                    ELSE [input EXCEPT !.ifMatch = EmptyString]
        get == readFileWrapper(type, n, getInput)
    IN  IF get.err \/ tagged THEN [err |-> get.err, panic |-> FALSE, out |-> get.out]
        ELSE IF type = "AIStore" /\ nilPanics
        THEN [err |-> FALSE, panic |-> TRUE, out |-> NoOutput]
        ELSE [err |-> FALSE, panic |-> FALSE, out |-> [get.out EXCEPT !.eTag = EmptyString]]

MatchInit ==
    /\ EngineStart([cacheLines : {1}, prefetchWindow : {0}])
    /\ byteRead = NoByteRead
    /\ listing = NoListing
    /\ mutex = NoMutex
    /\ driverCall \in {[NoDriverCall EXCEPT !.pc = "call", !.type = type, !.op = op,
                                            !.version = 1,
                                            !.tagged = tagged,
                                            !.nilPanics = nilPanics /\ ~tagged /\ type = "AIStore",
                                            !.ifMatchHonoured = honoured /\ tagged,
                                            !.delete = [pc |-> "call", ifMatch |-> del,
                                                        err |-> FALSE],
                                            !.input = [filePath |-> <<"o">>,
                                                       offsetCacheLine |-> l,
                                                       ifMatch |-> ifMatch]] :
                          type \in {"S3", "AIStore"}, op \in {"readFile", "statFile"},
                          honoured \in BOOLEAN, tagged \in BOOLEAN,
                          nilPanics \in BOOLEAN,
                          l \in {0, MaxLine + 1},
                          ifMatch \in MatchETags,
                          del \in {EmptyString, ETagOf(1)}}

\* the object is written (again) while the call has not returned
DriverOverwrite ==
    /\ driverCall.pc \in {"call", "get"}
    /\ driverCall.version <= MatchMaxVersion
    /\ driverCall' = [driverCall EXCEPT !.version = @ + 1, !.exists = TRUE]
    /\ UNCHANGED <<engineVars, byteRead, listing, mutex>>

\* deleteFile of another caller, up to DeleteObject: HeadObject and the
\* comparison with ifMatch
DriverDeleteHead ==
    /\ driverCall.pc \in {"call", "get"}
    /\ driverCall.delete.pc = "call"
    /\ driverCall' =
          IF deleteFileHeadErr(driverCall.type, StoreVersion, driverCall.tagged,
                               driverCall.delete.ifMatch)
          THEN [driverCall EXCEPT !.delete.pc = "returned", !.delete.err = TRUE]
          ELSE [driverCall EXCEPT !.delete.pc = "delete"]
    /\ UNCHANGED <<engineVars, byteRead, listing, mutex>>

\* deleteFile of another caller: DeleteObject removes the object from the store
DriverDeleteObject ==
    /\ driverCall.pc \in {"call", "get"}
    /\ driverCall.delete.pc = "delete"
    /\ LET err == deleteObjectErr(driverCall.type, StoreVersion,
                                  driverCall.delete.ifMatch, driverCall.ifMatchHonoured)
       IN  driverCall' = [driverCall EXCEPT !.delete.pc = "returned", !.delete.err = err,
                                            !.exists = IF err THEN @ ELSE FALSE]
    /\ UNCHANGED <<engineVars, byteRead, listing, mutex>>

\* HeadObject and the comparison: statFile returns here, readFile goes on to
\* GetObject unless the HEAD or the comparison failed; AIStore's readFile with
\* an empty ifMatch goes to GetObject at once
DriverHead ==
    /\ driverCall.pc = "call"
    /\ LET d == driverCall
           stat == statFileWrapper(d.type, StoreVersion, d.tagged, d.nilPanics, d.input)
       IN  driverCall' =
              IF headSkipped(d)
              THEN [d EXCEPT !.pc = "get"]
              ELSE IF d.op = "statFile"
              THEN [d EXCEPT !.pc = "returned", !.headVersion = StoreVersion,
                             !.err = stat.err, !.panic = stat.panic, !.out = stat.out]
              ELSE IF headAndCompareErr(d.type, StoreVersion, d.tagged, d.input.ifMatch)
              THEN [d EXCEPT !.pc = "returned", !.headVersion = StoreVersion,
                             !.err = TRUE, !.out = NoOutput]
              ELSE [d EXCEPT !.pc = "get", !.headVersion = StoreVersion]
    /\ UNCHANGED <<engineVars, byteRead, listing, mutex>>

\* readFile from GetObject on
DriverGet ==
    /\ driverCall.pc = "get"
    /\ LET get == getObject(driverCall.type, StoreVersion, driverCall.tagged,
                            driverCall.nilPanics, driverCall.ifMatchHonoured,
                            driverCall.input)
       IN  driverCall' = [driverCall EXCEPT !.pc = "returned", !.err = get.err,
                                            !.panic = get.panic, !.out = get.out]
    /\ UNCHANGED <<engineVars, byteRead, listing, mutex>>

NextMatch ==
    \/ DriverOverwrite
    \/ DriverDeleteHead
    \/ DriverDeleteObject
    \/ DriverHead
    \/ DriverGet

MatchSpec == MatchInit /\ [][NextMatch]_vars

(***************************************************************************)
(* The ETag the object has when the call returns: none when the object is  *)
(* gone or the store keeps no ETag or checksum for it.                     *)
(***************************************************************************)
CurrentETag ==
    IF driverCall.exists /\ driverCall.tagged
    THEN statFileETag(driverCall.type, driverCall.version)
    ELSE EmptyString

(***************************************************************************)
(* C24 (driver if_match contract).  As claimed: for both drivers, a        *)
(* readFile or statFile called with a non-empty ifMatch returns an error   *)
(* and no data whenever the ETag of the object differs from ifMatch when   *)
(* the call returns; a call with an empty ifMatch is under no              *)
(* precondition: it fails only if the object is gone or, for readFile, the *)
(* range cannot be satisfied.                                              *)
(***************************************************************************)
C24_IfMatchContract ==
    driverCall.pc = "returned" =>
        LET d == driverCall
        IN  /\ (d.input.ifMatch # EmptyString /\ CurrentETag # d.input.ifMatch)
                  => (d.err /\ ~d.panic /\ d.out = NoOutput)
            /\ (d.input.ifMatch = EmptyString /\ d.err)
                  => \/ d.delete.pc = "returned" /\ ~d.delete.err
                     \/ d.op = "readFile" /\ ~rangeSatisfiable(d.input.offsetCacheLine)

(***************************************************************************)
(* C25 (prune on fetch success).  As claimed: the critical section in      *)
(* which a fetch that succeeded finds its inode gives the line the fetched *)
(* buffer and ETag, makes it Clean, puts it on the clean LRU, releases the *)
(* waiters, and has run the prune before the lock is released, so that the *)
(* state it leaves is one the prune has nothing left to do in.             *)
(***************************************************************************)
C25_PruneOnFetchSuccess ==
    [][\A c \in 1 .. Len(cacheLine) :
          (/\ fetchTask[c].pc = "commit"
           /\ ~fetchTask[c].err
           /\ fetchTask'[c].pc = "done"
           /\ cacheLine[c].inodeNumber \in DOMAIN inodeMap)
          => /\ cacheLine'[c].state = CacheLineClean
             /\ cacheLine'[c].eTag = fetchTask[c].readFileOutput.eTag
             /\ cacheLine'[c].content = fetchTask[c].readFileOutput.buf
             /\ cacheLine'[c].waiters = <<>>
             /\ \/ inboundCacheLineCount' + Len(cleanCacheLineLRU') < config.cacheLines
                \/ cleanCacheLineLRU' = <<>>]_vars

\* the lines a call of cachePrune in the current state takes off the clean LRU
PruneCount == Len(cleanCacheLineLRU) - Len(cachePrune(Globals).cleanCacheLineLRU)

PruneRemoved == {cleanCacheLineLRU[k] : k \in 1 .. PruneCount}

(***************************************************************************)
(* C26 (prune postcondition).  In every reachable state, a cachePrune      *)
(* called there and returning has removed lines from the front of the      *)
(* clean LRU only, each while inboundCacheLineCount plus the length of the *)
(* LRU was at or above cacheLines; on return the sum is below cacheLines   *)
(* or the LRU is empty; every removed line is off the LRU and out of its   *)
(* inode's cache map, so that nothing refers to its buffer; and no other   *)
(* entry of any cache map has changed.                                     *)
(***************************************************************************)
C26_PrunePostcondition ==
    LET g == cachePrune(Globals)
        n == PruneCount
    IN  ~g.fatal =>
           /\ n >= 0
           /\ g.cleanCacheLineLRU = SubSeq(cleanCacheLineLRU, n + 1, Len(cleanCacheLineLRU))
           /\ n > 0 => inboundCacheLineCount + Len(cleanCacheLineLRU) - (n - 1)
                          >= config.cacheLines
           /\ \/ g.inboundCacheLineCount + Len(g.cleanCacheLineLRU) < config.cacheLines
              \/ g.cleanCacheLineLRU = <<>>
           /\ \A c \in PruneRemoved :
                 /\ \A k \in 1 .. Len(g.cleanCacheLineLRU) : g.cleanCacheLineLRU[k] # c
                 /\ ~g.cacheLine[c].listElement
                 /\ cacheLine[c].lineNumber
                        \notin DOMAIN g.inodeMap[cacheLine[c].inodeNumber].cache
                 /\ \A i \in DOMAIN g.inodeMap : \A l \in DOMAIN g.inodeMap[i].cache :
                       g.inodeMap[i].cache[l] # c
           /\ DOMAIN g.inodeMap = DOMAIN inodeMap
           /\ \A i \in DOMAIN inodeMap :
                 /\ DOMAIN g.inodeMap[i].cache =
                       DOMAIN inodeMap[i].cache
                           \ {cacheLine[c].lineNumber :
                                 c \in {r \in PruneRemoved : cacheLine[r].inodeNumber = i}}
                 /\ \A l \in DOMAIN g.inodeMap[i].cache :
                       g.inodeMap[i].cache[l] = inodeMap[i].cache[l]

\* a state in which cachePrune removes two lines and returns
C26_Witness ==
    /\ ~cachePrune(Globals).fatal
    /\ PruneCount = 2
    /\ inboundCacheLineCount = 0

(***************************************************************************)
(* C27 (eviction never touches Inbound lines).  In every reachable state,  *)
(* a cachePrune called there removes only lines that are Clean and on the  *)
(* clean LRU; it changes neither inboundCacheLineCount nor the inbound     *)
(* count of any inode, no line's state or waiters, no Inbound line at all, *)
(* no cache-map entry of an Inbound line, and no request or fetch.         *)
(***************************************************************************)
C27_EvictionSparesInbound ==
    LET g == cachePrune(Globals)
    IN  /\ g.inboundCacheLineCount = inboundCacheLineCount
        /\ g.request = request
        /\ g.fetchTask = fetchTask
        /\ g.waitLog = waitLog
        /\ \A c \in PruneRemoved :
              cacheLine[c].state = CacheLineClean /\ cacheLine[c].listElement
        /\ \A c \in 1 .. Len(cacheLine) :
              /\ g.cacheLine[c].state = cacheLine[c].state
              /\ g.cacheLine[c].waiters = cacheLine[c].waiters
              /\ cacheLine[c].state = CacheLineInbound => g.cacheLine[c] = cacheLine[c]
        /\ DOMAIN g.inodeMap = DOMAIN inodeMap
        /\ \A i \in DOMAIN inodeMap :
              /\ g.inodeMap[i].inboundCacheLineCount = inodeMap[i].inboundCacheLineCount
              /\ \A l \in DOMAIN inodeMap[i].cache :
                    cacheLine[inodeMap[i].cache[l]].state = CacheLineInbound
                    => /\ l \in DOMAIN g.inodeMap[i].cache
                       /\ g.inodeMap[i].cache[l] = inodeMap[i].cache[l]

\* cachePrune evicts a Clean line while another line, with a reader waiting
\* for it, is being fetched
C27_Witness ==
    /\ PruneCount >= 1
    /\ \E i \in DOMAIN inodeMap : \E l \in DOMAIN inodeMap[i].cache :
          /\ cacheLine[inodeMap[i].cache[l]].state = CacheLineInbound
          /\ cacheLine[inodeMap[i].cache[l]].waiters # <<>>

(***************************************************************************)
(* C28 (touch).  As claimed, in every reachable state and for every line:  *)
(* touch of a Clean line leaves it as the last (most recently used)        *)
(* element of the clean LRU, keeps the length of the list and the order of *)
(* the other lines, and changes nothing but the list; touch of an Inbound  *)
(* line changes nothing, and the line is on neither list afterwards.       *)
(***************************************************************************)
C28_Touch ==
    \A c \in CacheLineIds :
        LET g == touch(Globals, c)
        IN  /\ cacheLine[c].state = CacheLineClean
                  => /\ g.cleanCacheLineLRU # <<>>
                     /\ g.cleanCacheLineLRU[Len(g.cleanCacheLineLRU)] = c
                     /\ Len(g.cleanCacheLineLRU) = Len(cleanCacheLineLRU)
                     /\ ListRemove(g.cleanCacheLineLRU, c) = ListRemove(cleanCacheLineLRU, c)
                     /\ Occurrences(g.cleanCacheLineLRU, c) = 1
                     /\ g = [Globals EXCEPT !.cleanCacheLineLRU = g.cleanCacheLineLRU]
            /\ cacheLine[c].state = CacheLineInbound
                  => /\ g = Globals
                     /\ c \notin SeqRange(g.cleanCacheLineLRU)
                     /\ c \notin SeqRange(g.dirtyCacheLineLRU)

(***************************************************************************)
(* fetch() at the grain of globals.Lock() and globals.Unlock().  Several   *)
(* fetch goroutines, each for a line of its own of one inode, run next to  *)
(* one more goroutine (a handler or the reload worker) that takes the lock *)
(* for critical sections of its own and may remove the inode in one of     *)
(* them.  mutex.holder is the goroutine inside the lock, 0 when it is      *)
(* free; Lock() blocks until it is free.  The critical sections of fetch() *)
(* act on the engine's state as fetchMissingInode, fetchSnapshot,          *)
(* fetchError and fetchSuccess describe.                                   *)
(***************************************************************************)
MaxLockFetchers == 3

MaxHandlerSections == 2

LockFetchers == 1 .. MaxLockFetchers

LockHandler == MaxLockFetchers + 1

NoSnapshot == <<>>

\* globals.Lock() by goroutine p, once the lock is free
globalsLock(m, p) == [m EXCEPT !.holder = p]

\* globals.Unlock()
globalsUnlock(m) == [m EXCEPT !.holder = 0]

\* a fetch() that goes into readFileWrapper without releasing the lock
fetchKeepLockBeforeReadFile(m) == m

\* fetch(): the globals.Unlock() that precedes readFileWrapper
fetchUnlockBeforeReadFile(m) == globalsUnlock(m)

\* the inode whose lines the fetch goroutines fill
LockInode == 2

\* the engine when the goroutines start: lookup has bound the object of "d1"
\* to LockInode, and one read of the lines 0 .. MaxLockFetchers - 1 has
\* allocated them Inbound, attached its WaitGroup to each and started the
\* fetch goroutine f for the line f - 1
LockEngine ==
    readBegin([inodeMap |-> (LockInode :>
                                [backend |-> 1, objectPath |-> <<"k">>,
                                 eTag |-> statFileETag(BackendType("d1"), 1),
                                 cache |-> <<>>, inboundCacheLineCount |-> 0]),
               cacheLine |-> <<>>,
               cleanCacheLineLRU |-> <<>>,
               dirtyCacheLineLRU |-> <<>>,
               inboundCacheLineCount |-> 0,
               fetchTask |-> <<>>,
               request |-> <<>>,
               waitLog |-> <<>>,
               fatal |-> FALSE],
              LockInode, 0, MaxLockFetchers - 1)

LockInit ==
    /\ config \in [cacheLines : {1}, prefetchWindow : {0}]
    /\ backend = <<[dirName |-> "d1", state |-> "active", context |-> "live",
                    settings |-> DefaultSettings]>>
    /\ objectVersion = [d \in ReloadDirNames |-> 1]
    /\ nextInodeNumber = LockInode + 1
    /\ inodeMap = LockEngine.inodeMap
    /\ cacheLine = LockEngine.cacheLine
    /\ cleanCacheLineLRU = LockEngine.cleanCacheLineLRU
    /\ dirtyCacheLineLRU = LockEngine.dirtyCacheLineLRU
    /\ inboundCacheLineCount = LockEngine.inboundCacheLineCount
    /\ fetchTask = LockEngine.fetchTask
    /\ request = LockEngine.request
    /\ waitLog = LockEngine.waitLog
    /\ fatal = LockEngine.fatal
    /\ reload = [pc |-> "idle", count |-> 0, toRemove |-> {}, draining |-> 0]
    /\ lookupLog = {[path |-> PathOf(1), backend |-> 1, inodeNumber |-> LockInode]}
    /\ driverCalls = {"statFile"}
    /\ reloadLog = NoReloadLog
    /\ byteRead = NoByteRead
    /\ listing = NoListing
    /\ driverCall = NoDriverCall
    /\ mutex = [NoMutex EXCEPT
                  !.pc = [p \in 1 .. LockHandler |->
                             IF p = LockHandler THEN "idle" ELSE "start"],
                  !.snapshot = [f \in LockFetchers |-> NoSnapshot],
                  !.err = [f \in LockFetchers |-> FALSE]]

\* what a goroutine that only takes or waits for the lock leaves alone
lockUnchanged ==
    UNCHANGED <<engineVars, byteRead, listing, driverCall>>

\* what a critical section of fetch() or of the other goroutine leaves alone
sectionUnchanged ==
    UNCHANGED <<config, backend, objectVersion, nextInodeNumber, reload, lookupLog,
                driverCalls, reloadLog, byteRead, listing, driverCall>>

\* fetch(): globals.Lock() at its start
LockFetchLock(f) ==
    /\ mutex.pc[f] = "start"
    /\ mutex.holder = 0
    /\ mutex' = [globalsLock(mutex, f) EXCEPT !.pc[f] = "held1"]
    /\ lockUnchanged

\* fetch(), inode missing [case 1]: the line is made Clean and empty, the
\* global count is decremented, the line is pushed on the clean LRU, the
\* waiters are notified, and the lock is released
LockFetchMissingInode(f) ==
    /\ mutex.pc[f] = "held1"
    /\ cacheLine[f].inodeNumber \notin DOMAIN inodeMap
    /\ Commit(fetchMissingInode(Globals, f))
    /\ mutex' = [globalsUnlock(mutex) EXCEPT !.pc[f] = "returned"]
    /\ sectionUnchanged

\* fetch(), inode found: backend, object path and line number are copied under
\* the lock, the lock is released and readFileWrapper is entered
LockFetchSnapshot(f) ==
    /\ mutex.pc[f] = "held1"
    /\ cacheLine[f].inodeNumber \in DOMAIN inodeMap
    /\ LET g == fetchSnapshot(Globals, f)
       IN  /\ Commit(g)
           /\ mutex' = [fetchUnlockBeforeReadFile(mutex) EXCEPT
                           !.pc[f] = "io",
                           !.snapshot[f] =
                               [backend |-> g.fetchTask[f].backend,
                                filePath |-> g.fetchTask[f].readFileInput.filePath,
                                offsetCacheLine |->
                                    g.fetchTask[f].readFileInput.offsetCacheLine,
                                ifMatch |-> g.fetchTask[f].readFileInput.ifMatch]]
    /\ sectionUnchanged

\* readFileWrapper returns, with or without an error of the transport
LockFetchReadFileReturn(f, err) ==
    /\ mutex.pc[f] = "io"
    /\ LET d == backend[fetchTask[f].backend].dirName
           res == readFileWrapper(BackendType(d), objectVersion[d],
                                  fetchTask[f].readFileInput)
       IN  /\ fetchTask' = [fetchTask EXCEPT
                               ![f].pc = "commit",
                               ![f].calls = @ + 1,
                               ![f].err = err \/ res.err,
                               ![f].readFileOutput = IF err THEN NoOutput ELSE res.out]
           /\ mutex' = [mutex EXCEPT !.pc[f] = "lock2", !.err[f] = err \/ res.err]
    /\ driverCalls' = driverCalls \cup {"readFile"}
    /\ UNCHANGED <<config, backend, objectVersion, inodeMap, nextInodeNumber, cacheLine,
                   cleanCacheLineLRU, dirtyCacheLineLRU, inboundCacheLineCount, request,
                   waitLog, reload, fatal, lookupLog, reloadLog, byteRead, listing,
                   driverCall>>

\* fetch(): globals.Lock() after readFileWrapper, on either path
LockFetchRelock(f) ==
    /\ mutex.pc[f] = "lock2"
    /\ mutex.holder = 0
    /\ mutex' = [globalsLock(mutex, f) EXCEPT !.pc[f] = "held2"]
    /\ lockUnchanged

\* fetch(), after the second globals.Lock(): the inode's count is decremented
\* if the inode is still there, the line is made Clean with the outcome of the
\* call, the global count is decremented, the line is pushed on the clean LRU,
\* the waiters are notified, and the lock is released
LockFetchCommit(f) ==
    /\ mutex.pc[f] = "held2"
    /\ IF fetchTask[f].err
       THEN Commit(fetchError(Globals, f))
       ELSE Commit(fetchSuccess(Globals, f, fetchTask[f].readFileOutput))
    /\ mutex' = [globalsUnlock(mutex) EXCEPT !.pc[f] = "returned"]
    /\ sectionUnchanged

\* another goroutine enters a critical section
LockHandlerLock ==
    /\ mutex.pc[LockHandler] = "idle"
    /\ mutex.sections < MaxHandlerSections
    /\ mutex.holder = 0
    /\ mutex' = [globalsLock(mutex, LockHandler) EXCEPT
                    !.pc[LockHandler] = "held", !.sections = @ + 1]
    /\ lockUnchanged

\* and leaves it, having removed the inode from globals.inodeMap or not
LockHandlerUnlock(detach) ==
    /\ mutex.pc[LockHandler] = "held"
    /\ IF detach
       THEN Commit(detachInodes(Globals, {LockInode} \cap DOMAIN inodeMap))
       ELSE Commit(Globals)
    /\ mutex' = [globalsUnlock(mutex) EXCEPT
                    !.pc[LockHandler] = "idle",
                    !.inodePresent = @ /\ ~detach]
    /\ sectionUnchanged

NextLock ==
    \/ \E f \in LockFetchers : LockFetchLock(f)
    \/ \E f \in LockFetchers : LockFetchMissingInode(f)
    \/ \E f \in LockFetchers : LockFetchSnapshot(f)
    \/ \E f \in LockFetchers : \E err \in BOOLEAN : LockFetchReadFileReturn(f, err)
    \/ \E f \in LockFetchers : LockFetchRelock(f)
    \/ \E f \in LockFetchers : LockFetchCommit(f)
    \/ LockHandlerLock
    \/ \E detach \in BOOLEAN : LockHandlerUnlock(detach)

LockSpec == LockInit /\ [][NextLock]_vars

(***************************************************************************)
(* C29 (driver I/O outside the lock).  A fetch goroutine whose backend     *)
(* call is in progress does not hold the global lock and has its copy of   *)
(* backend, object path and line number, taken under the lock; it holds    *)
(* the lock only in its first critical section and in the one that         *)
(* commits; the lock has one holder at most, which is inside a critical    *)
(* section; and while fetches are in the driver and the lock is free, any  *)
(* goroutine that asks for the lock gets it.                               *)
(***************************************************************************)
C29_DriverIoOutsideLock ==
    /\ \A f \in LockFetchers :
          /\ mutex.pc[f] = "io"
                => /\ mutex.holder # f
                   /\ mutex.snapshot[f] # NoSnapshot
                   /\ mutex.snapshot[f].offsetCacheLine = f - 1
          /\ mutex.holder = f <=> mutex.pc[f] \in {"held1", "held2"}
          /\ mutex.pc[f] \in {"lock2", "held2"} => mutex.snapshot[f] # NoSnapshot
    /\ mutex.holder = LockHandler <=> mutex.pc[LockHandler] = "held"
    /\ mutex.holder \in 0 .. LockHandler
    /\ \A f \in LockFetchers : \A p \in LockFetchers \ {f} :
          (mutex.pc[f] = "io" /\ mutex.holder = 0)
          => /\ mutex.pc[p] = "start" => ENABLED LockFetchLock(p)
             /\ mutex.pc[p] = "lock2" => ENABLED LockFetchRelock(p)
             /\ (mutex.pc[LockHandler] = "idle" /\ mutex.sections < MaxHandlerSections)
                   => ENABLED LockHandlerLock

\* every fetch goroutine is inside readFileWrapper while the other goroutine
\* is inside the lock
C29_Witness ==
    /\ \A f \in LockFetchers : mutex.pc[f] = "io"
    /\ mutex.holder = LockHandler

(***************************************************************************)
(* C30 (reachable states).  In every reachable state every cache line is   *)
(* Inbound or Clean and the dirty LRU is empty.  A line enters as Inbound; *)
(* the only change of a line's state any step makes is from Inbound to     *)
(* Clean, made by the step in which the line's fetch goroutine finishes,   *)
(* so it happens once per line at most, and a line whose fetch has         *)
(* finished is Clean.                                                      *)
(***************************************************************************)
C30_ReachableStates ==
    /\ [](/\ \A c \in CacheLineIds :
               /\ cacheLine[c].state \in {CacheLineInbound, CacheLineClean}
               /\ fetchTask[c].pc = "done" <=> cacheLine[c].state = CacheLineClean
          /\ dirtyCacheLineLRU = <<>>)
    /\ [][/\ Len(cacheLine') >= Len(cacheLine)
          /\ \A c \in 1 .. Len(cacheLine') :
                IF c > Len(cacheLine)
                THEN cacheLine'[c].state = CacheLineInbound
                ELSE cacheLine'[c].state # cacheLine[c].state
                     => /\ cacheLine[c].state = CacheLineInbound
                        /\ cacheLine'[c].state = CacheLineClean
                        /\ fetchTask[c].pc \in {"begin", "commit"}
                        /\ fetchTask'[c].pc = "done"]_vars

\* one line has been made Clean by its fetch, with content, and stays on the
\* clean LRU while the fetch of another line is inside the backend call
C30_Witness ==
    \E c \in CacheLineIds : \E c2 \in CacheLineIds :
        /\ cacheLine[c].state = CacheLineClean
        /\ fetchTask[c].pc = "done"
        /\ ~fetchTask[c].err
        /\ cacheLine[c].content # <<>>
        /\ cleanCacheLineLRU = <<c>>
        /\ cacheLine[c2].state = CacheLineInbound
        /\ fetchTask[c2].pc = "io"

(***************************************************************************)
(* C31 (Clean lines are immutable).  No step changes the content or the    *)
(* eTag of a line that is Clean, whether the line is on the clean LRU,     *)
(* held by a reader, evicted or left behind by a removed inode; the line   *)
(* stays Clean and keeps its inode number and line number.                 *)
(***************************************************************************)
C31_CleanImmutable ==
    [][\A c \in CacheLineIds :
          cacheLine[c].state = CacheLineClean
          => /\ c <= Len(cacheLine')
             /\ cacheLine'[c].state = CacheLineClean
             /\ cacheLine'[c].content = cacheLine[c].content
             /\ cacheLine'[c].eTag = cacheLine[c].eTag
             /\ cacheLine'[c].inodeNumber = cacheLine[c].inodeNumber
             /\ cacheLine'[c].lineNumber = cacheLine[c].lineNumber]_vars

\* a line that was filled from the first version of its object has left the LRU
\* and the cache map and still holds that content, while the object has been
\* overwritten and a later fetch has brought in the second version
C31_Witness ==
    \E c \in CacheLineIds : \E c2 \in CacheLineIds :
        /\ cacheLine[c].state = CacheLineClean
        /\ cacheLine[c].content = objectChunk(1, cacheLine[c].lineNumber)
        /\ c \notin Indexed
        /\ ~cacheLine[c].listElement
        /\ cacheLine[c2].state = CacheLineClean
        /\ cacheLine[c2].content = objectChunk(2, cacheLine[c2].lineNumber)

\* the lines of inode number i that are Inbound
InboundLinesOf(i) ==
    {c \in CacheLineIds : cacheLine[c].inodeNumber = i
                             /\ cacheLine[c].state = CacheLineInbound}

(***************************************************************************)
(* C32 (counter consistency).  In every state between critical sections,   *)
(* globals.inboundCacheLineCount is the number of lines that are Inbound   *)
(* and the inboundCacheLineCount of every inode in the table is the number *)
(* of Inbound lines of that inode; no counter is below zero, so that no    *)
(* decrement of the unsigned counters has wrapped around.                  *)
(***************************************************************************)
C32_CounterConsistency ==
    /\ inboundCacheLineCount >= 0
    /\ inboundCacheLineCount
          = Cardinality({c \in CacheLineIds : cacheLine[c].state = CacheLineInbound})
    /\ \A i \in DOMAIN inodeMap :
          /\ inodeMap[i].inboundCacheLineCount >= 0
          /\ inodeMap[i].inboundCacheLineCount = Cardinality(InboundLinesOf(i))

\* two fetches have finished after their inode was removed, one that found it
\* missing before the backend call and one whose backend call failed, and no
\* line is Inbound any more
C32_Witness ==
    \E c1 \in CacheLineIds : \E c2 \in CacheLineIds :
        /\ fetchTask[c1].pc = "done"
        /\ fetchTask[c1].missingInode
        /\ fetchTask[c1].calls = 0
        /\ fetchTask[c2].pc = "done"
        /\ fetchTask[c2].missingInode
        /\ fetchTask[c2].err
        /\ inboundCacheLineCount = 0

(***************************************************************************)
(* C33 (cachePrune never aborts).  As claimed: for every line on the clean *)
(* LRU the inode table holds the line's inode number and that inode's      *)
(* cache map holds, under the line's number, that very line; cachePrune    *)
(* never takes a fatal branch, and the process has not aborted.            *)
(***************************************************************************)
C33_PruneNeverAborts ==
    /\ ~fatal
    /\ ~cachePrune(Globals).fatal
    /\ \A c \in SeqRange(cleanCacheLineLRU) :
          /\ cacheLine[c].inodeNumber \in DOMAIN inodeMap
          /\ cacheLine[c].lineNumber \in DOMAIN inodeMap[cacheLine[c].inodeNumber].cache
          /\ inodeMap[cacheLine[c].inodeNumber].cache[cacheLine[c].lineNumber] = c

(***************************************************************************)
(* Fetches next to the removal of a backend.  A first reload adds d2 to    *)
(* d1, a second one removes d1; files of both backends are looked up and   *)
(* read one line at a time.  Every goroutine that can take a step          *)
(* eventually takes it and every backend call returns, with or without an  *)
(* error.                                                                  *)
(***************************************************************************)
FetchMaxReloads == 2

FetchMaxInodes == 2

FetchMaxRequests == 2

FetchMaxCacheLineStructs == 2

FetchInit == Start([cacheLines : {1}, prefetchWindow : {0}])

FetchConfigs == {{"d1", "d2"}, {"d2"}}

NextFetch ==
    \/ \E b \in BackendIds : LookupStep(b, FetchMaxInodes)
    \/ \E i \in DOMAIN inodeMap : \E l \in 0 .. MaxReadLine :
          ReadStep(i, l, l, FetchMaxRequests, FetchMaxCacheLineStructs)
    \/ \E r \in 1 .. Len(request) : DoReadEnd(r)
    \/ \E c \in 1 .. Len(cacheLine) : FetchBegin(c)
    \/ \E c \in 1 .. Len(cacheLine) : FetchReadFile(c)
    \/ \E c \in 1 .. Len(cacheLine) : FetchCommit(c)
    \/ CachePruneCall
    \/ \E desired \in FetchConfigs : ReloadStartStep(desired, {}, FetchMaxReloads)
    \/ \E b \in BackendIds : ReloadDrain(b)
    \/ ReloadDestroy

FetchSpec ==
    /\ FetchInit
    /\ [][NextFetch]_vars
    /\ WF_vars(\E r \in 1 .. Len(request) : DoReadEnd(r))
    /\ WF_vars(\E c \in 1 .. Len(cacheLine) : FetchBegin(c))
    /\ WF_vars(\E c \in 1 .. Len(cacheLine) : FetchReadFile(c))
    /\ WF_vars(\E c \in 1 .. Len(cacheLine) : FetchCommit(c))
    /\ WF_vars(\E b \in BackendIds : ReloadDrain(b))
    /\ WF_vars(ReloadDestroy)

(***************************************************************************)
(* C34 (fetch always completes its line).  As claimed: with every backend  *)
(* call returning, every line that is Inbound is eventually Clean with its *)
(* waiters released and its fetch goroutine returned, and every reader     *)
(* that waits for lines is eventually released.                            *)
(***************************************************************************)
C34_FetchCompletes ==
    /\ \A c \in 1 .. FetchMaxCacheLineStructs :
          (c \in CacheLineIds /\ cacheLine[c].state = CacheLineInbound)
          ~> (/\ c \in CacheLineIds
              /\ cacheLine[c].state = CacheLineClean
              /\ cacheLine[c].waiters = <<>>
              /\ fetchTask[c].pc = "done")
    /\ \A r \in 1 .. FetchMaxRequests :
          (r \in RequestIds /\ request[r].pc = "waiting")
          ~> (r \in RequestIds /\ request[r].waitGroup = 0)

\* a readFile with a non-empty ifMatch has returned without error
ConditionalReadSucceeded ==
    /\ driverCall.pc = "returned"
    /\ driverCall.op = "readFile"
    /\ driverCall.input.ifMatch # EmptyString
    /\ ~driverCall.err
    /\ ~driverCall.panic

(***************************************************************************)
(* C35 (conditional read returns the requested version).  As claimed: a    *)
(* readFile that was called with a non-empty ifMatch and succeeded has     *)
(* returned an eTag equal to ifMatch and the bytes of the version of the   *)
(* object that has this ETag, whatever happened to the object between the  *)
(* driver's HEAD and its GET.                                              *)
(***************************************************************************)
C35_RequestedVersion ==
    ConditionalReadSucceeded =>
        /\ driverCall.out.eTag = driverCall.input.ifMatch
        /\ \E v \in 1 .. MatchMaxVersion + 1 :
              /\ statFileETag(driverCall.type, v) = driverCall.input.ifMatch
              /\ driverCall.out.buf = objectChunk(v, driverCall.input.offsetCacheLine)

(***************************************************************************)
(* One call of statDirectory of a driver, for a backend with or without a  *)
(* configured prefix, a directory path and a bucket holding any of the     *)
(* keys of KeyUniverse.  The listing request itself may fail.              *)
(***************************************************************************)
\* backend.prefix
StatPrefixes == {EmptyString, <<"p", "/">>}

\* statDirectoryInput.dirPath
StatDirPaths == {EmptyString, <<"a", "/">>, <<"c", "/">>, <<"z", "/">>}

\* a ListObjectsV2Input without Delimiter: no key is rolled up
NoDelimiter == ""

\* an S3 statDirectory that treats the empty full prefix like any other
s3StatDirectoryStrict(bucket, fullPath, apiErr) ==
    LET s3ListObjectsV2Output == s3ListObjectsV2(bucket, fullPath, NoDelimiter,
                                                 EmptyString, 1)
    IN  IF apiErr THEN [err |-> TRUE, missing |-> FALSE]
        ELSE IF Len(s3ListObjectsV2Output.CommonPrefixes)
                   + Len(s3ListObjectsV2Output.Contents) = 0
        THEN [err |-> TRUE, missing |-> TRUE]
        ELSE [err |-> FALSE, missing |-> FALSE]

\* (*s3ContextStruct).statDirectory: ListObjectsV2 with MaxKeys 1 and the
\* full path as Prefix
s3StatDirectory(bucket, fullPath, apiErr) ==
    LET s3ListObjectsV2Output == s3ListObjectsV2(bucket, fullPath, NoDelimiter,
                                                 EmptyString, 1)
    IN  IF apiErr THEN [err |-> TRUE, missing |-> FALSE]
        ELSE IF fullPath # EmptyString
                /\ Len(s3ListObjectsV2Output.CommonPrefixes)
                      + Len(s3ListObjectsV2Output.Contents) = 0
        THEN [err |-> TRUE, missing |-> TRUE]
        ELSE [err |-> FALSE, missing |-> FALSE]

\* (*aistoreContextStruct).statDirectory: ListObjectsPage with PageSize 1 and
\* the full path as Prefix
aistoreStatDirectory(bucket, fullPath, apiErr) ==
    LET lsoResult == aisListObjectsPage(bucket, fullPath, EmptyString, 1)
    IN  IF apiErr THEN [err |-> TRUE, missing |-> FALSE]
        ELSE IF Len(lsoResult.entries) = 0
        THEN [err |-> TRUE, missing |-> TRUE]
        ELSE [err |-> FALSE, missing |-> FALSE]

statDirectory(type, bucket, fullPath, apiErr) ==
    IF type = "S3" THEN s3StatDirectory(bucket, fullPath, apiErr)
    ELSE aistoreStatDirectory(bucket, fullPath, apiErr)

StatDirInit ==
    /\ EngineStart([cacheLines : {1}, prefetchWindow : {0}])
    /\ byteRead = NoByteRead
    /\ listing = NoListing
    /\ mutex = NoMutex
    /\ driverCall \in {[pc |-> "call", type |-> type, op |-> "statDirectory",
                        bucket |-> bucket, prefix |-> prefix, dirPath |-> dirPath,
                        apiErr |-> FALSE, err |-> FALSE, missing |-> FALSE] :
                          type \in {"S3", "AIStore"},
                          bucket \in SUBSET (1 .. Len(KeyUniverse)),
                          prefix \in StatPrefixes, dirPath \in StatDirPaths}

\* the driver is called and returns
StatDirectoryCall(apiErr) ==
    /\ driverCall.pc = "call"
    /\ LET out == statDirectory(driverCall.type, driverCall.bucket,
                                driverCall.prefix \o driverCall.dirPath, apiErr)
       IN  driverCall' = [driverCall EXCEPT !.pc = "returned", !.apiErr = apiErr,
                                            !.err = out.err, !.missing = out.missing]
    /\ UNCHANGED <<engineVars, byteRead, listing, mutex>>

NextStatDir == \E apiErr \in BOOLEAN : StatDirectoryCall(apiErr)

StatDirSpec == StatDirInit /\ [][NextStatDir]_vars

(***************************************************************************)
(* C36 (directory existence check).  A statDirectory whose listing request *)
(* was answered succeeds if the bucket holds a key that starts with the    *)
(* full prefix, and fails with "missing directory" if it holds none;       *)
(* except that the S3 driver succeeds for the empty full prefix whatever   *)
(* the bucket holds, also nothing, where the AIStore driver fails for an   *)
(* empty bucket.                                                           *)
(***************************************************************************)
C36_StatDirectory ==
    (driverCall.pc = "returned" /\ ~driverCall.apiErr) =>
        LET d == driverCall
            fullPath == d.prefix \o d.dirPath
            under == {k \in d.bucket : stringsHasPrefix(KeyUniverse[k], fullPath)}
        IN  /\ d.err = d.missing
            /\ IF d.type = "S3" /\ fullPath = EmptyString
               THEN ~d.err
               ELSE d.err <=> under = {}

\* the S3 driver has reported the root of an empty bucket as present
C36_Witness ==
    /\ driverCall.pc = "returned"
    /\ ~driverCall.apiErr
    /\ driverCall.type = "S3"
    /\ driverCall.prefix \o driverCall.dirPath = EmptyString
    /\ driverCall.bucket = {}
    /\ ~driverCall.err

(***************************************************************************)
(* The aws.Retryer callbacks of the S3 backend, and the retry loop of the  *)
(* SDK that calls them: a request is attempted; an error that              *)
(* IsErrorRetryable accepts is retried after RetryDelay(attempt) unless    *)
(* attempt has reached MaxAttempts.  Durations are whole numbers.          *)
(***************************************************************************)
MaxRetryDelays == 3

MaxDuration == 2

\* the HTTP status codes a response error is tried with
StatusCodes == {200, 304, 399, 400, 404, 428, 429, 430, 499, 500, 503}

StatusTooManyRequests == 429

\* err: nil, an error that is not an *awshttp.ResponseError, or one that is
RetryErrors ==
    {[kind |-> "nil", status |-> 0], [kind |-> "other", status |-> 0]}
        \cup {[kind |-> "http", status |-> code] : code \in StatusCodes}

\* an IsErrorRetryable without the case of http.StatusTooManyRequests
IsErrorRetryableNo429(err) ==
    IF err.kind = "nil" THEN FALSE
    ELSE IF err.kind # "http" THEN TRUE
    ELSE IF err.status < 400 THEN TRUE
    ELSE IF err.status >= 500 THEN TRUE
    ELSE FALSE

\* (*backendStruct).IsErrorRetryable
IsErrorRetryable(err) ==
    IF err.kind = "nil" THEN FALSE
    ELSE IF err.kind # "http" THEN TRUE
    ELSE IF err.status < 400 THEN TRUE
    ELSE IF err.status = StatusTooManyRequests THEN TRUE
    ELSE IF err.status >= 500 THEN TRUE
    ELSE FALSE

\* (*backendStruct).MaxAttempts
MaxAttempts(retryDelay) == Len(retryDelay) + 1

\* a RetryDelay that refuses the last attempt number it has a delay for
RetryDelayShort(retryDelay, attempt) ==
    IF attempt < 1 \/ attempt >= Len(retryDelay)
    THEN [delay |-> 0, err |-> TRUE]
    ELSE [delay |-> retryDelay[attempt], err |-> FALSE]

\* (*backendStruct).RetryDelay; Go's retryDelay[attempt-1] is the attempt-th
\* element of the sequence
RetryDelay(retryDelay, attempt) ==
    IF attempt < 1 \/ attempt > Len(retryDelay)
    THEN [delay |-> 0, err |-> TRUE]
    ELSE [delay |-> retryDelay[attempt], err |-> FALSE]

RECURSIVE SeqsUpTo(_, _)
SeqsUpTo(S, n) ==
    IF n = 0 THEN {<<>>}
    ELSE LET shorter == SeqsUpTo(S, n - 1)
         IN  shorter \cup {Append(q, x) : q \in shorter, x \in S}

NoProbe == [attempt |-> 0, asked |-> FALSE, delay |-> 0, err |-> FALSE]

RetryInit ==
    /\ EngineStart([cacheLines : {1}, prefetchWindow : {0}])
    /\ byteRead = NoByteRead
    /\ listing = NoListing
    /\ mutex = NoMutex
    /\ driverCall \in {[pc |-> "attempt", op |-> "request", retryDelay |-> retryDelay,
                        maxAttempts |-> 0, attempt |-> 0,
                        lastErr |-> [kind |-> "nil", status |-> 0],
                        retryable |-> FALSE, slept |-> <<>>, probe |-> NoProbe] :
                          retryDelay \in SeqsUpTo(1 .. MaxDuration, MaxRetryDelays)}

\* one attempt of the request ends with err; the SDK asks IsErrorRetryable and
\* MaxAttempts
RetryAttempt(err) ==
    /\ driverCall.pc = "attempt"
    /\ LET attemptNum == driverCall.attempt + 1
           retryable == IsErrorRetryable(err)
           maxAttempts == MaxAttempts(driverCall.retryDelay)
       IN  driverCall' = [driverCall EXCEPT
                            !.attempt = attemptNum,
                            !.lastErr = err,
                            !.retryable = retryable,
                            !.maxAttempts = maxAttempts,
                            !.pc = IF ~retryable THEN "returned"
                                   ELSE IF attemptNum >= maxAttempts THEN "exhausted"
                                   ELSE "delay"]
    /\ UNCHANGED <<engineVars, byteRead, listing, mutex>>

\* the SDK asks RetryDelay for the attempt that failed and sleeps
RetrySleep ==
    /\ driverCall.pc = "delay"
    /\ LET d == RetryDelay(driverCall.retryDelay, driverCall.attempt)
       IN  driverCall' = IF d.err
                         THEN [driverCall EXCEPT !.pc = "noDelay"]
                         ELSE [driverCall EXCEPT !.pc = "attempt",
                                                 !.slept = Append(@, d.delay)]
    /\ UNCHANGED <<engineVars, byteRead, listing, mutex>>

\* RetryDelay called with any attempt number
RetryDelayProbe(attempt) ==
    /\ ~driverCall.probe.asked
    /\ LET d == RetryDelay(driverCall.retryDelay, attempt)
       IN  driverCall' = [driverCall EXCEPT
                            !.probe = [attempt |-> attempt, asked |-> TRUE,
                                       delay |-> d.delay, err |-> d.err]]
    /\ UNCHANGED <<engineVars, byteRead, listing, mutex>>

NextRetry ==
    \/ \E err \in RetryErrors : RetryAttempt(err)
    \/ RetrySleep
    \/ \E attempt \in -1 .. MaxRetryDelays + 2 : RetryDelayProbe(attempt)

RetrySpec == RetryInit /\ [][NextRetry]_vars

(***************************************************************************)
(* C37 (S3 retry classification).  IsErrorRetryable has answered false for *)
(* a nil error, true for an error that is not an HTTP response error, and  *)
(* for an HTTP response error true exactly when the status code is below   *)
(* 400, is 429, or is 500 or more.                                         *)
(***************************************************************************)
C37_RetryClassification ==
    driverCall.attempt >= 1 =>
        LET err == driverCall.lastErr
        IN  driverCall.retryable <=>
               \/ err.kind = "other"
               \/ /\ err.kind = "http"
                  /\ (err.status < 400 \/ err.status = 429 \/ err.status >= 500)

\* the second attempt of a request was answered 429 and the request is about
\* to be retried
C37_Witness ==
    /\ driverCall.attempt = 2
    /\ driverCall.lastErr = [kind |-> "http", status |-> 429]
    /\ driverCall.retryable
    /\ driverCall.pc = "delay"

(***************************************************************************)
(* C38 (S3 retry schedule).  MaxAttempts is the number of configured       *)
(* delays plus one.  RetryDelay(attempt) gives the attempt-th configured   *)
(* delay, without error, for 1 <= attempt < MaxAttempts and an error for   *)
(* every other attempt number.  A request is attempted MaxAttempts times   *)
(* at most, and before each retry the SDK has got a delay: the delays      *)
(* slept are the first configured ones, in order.                          *)
(***************************************************************************)
C38_RetrySchedule ==
    LET d == driverCall
        n == Len(d.retryDelay)
    IN  /\ d.attempt >= 1 => d.maxAttempts = n + 1
        /\ d.attempt <= n + 1
        /\ d.pc # "noDelay"
        /\ d.pc = "exhausted" => d.attempt = n + 1
        /\ d.slept = SubSeq(d.retryDelay, 1, Len(d.slept))
        /\ Len(d.slept) = IF d.pc = "attempt" THEN d.attempt
                          ELSE d.attempt - 1
        /\ d.probe.asked =>
              IF 1 <= d.probe.attempt /\ d.probe.attempt < n + 1
              THEN ~d.probe.err /\ d.probe.delay = d.retryDelay[d.probe.attempt]
              ELSE d.probe.err

\* a request has failed with retryable errors on every attempt of a schedule
\* of three delays: it was tried four times and slept the three delays
C38_Witness ==
    /\ driverCall.pc = "exhausted"
    /\ Len(driverCall.retryDelay) = 3
    /\ driverCall.attempt = 4
    /\ driverCall.slept = driverCall.retryDelay
    /\ driverCall.probe.asked
    /\ driverCall.probe.attempt = 4
    /\ driverCall.probe.err

(***************************************************************************)
(* One call of cachePrune, iteration by iteration, entered with the lock   *)
(* held in a state with any number of Clean lines on the clean LRU, any    *)
(* number of Inbound lines and any cacheLines, zero included.  All lines   *)
(* belong to one inode.  The goroutine that runs the loop keeps running.   *)
(***************************************************************************)
PruneMaxCacheLines == 3

PruneMaxClean == 3

PruneMaxInbound == 2

\* the state of the engine with lines 1 .. clean Clean and on the LRU, in
\* ascending or descending order, and the next inbound lines Inbound
PruneEntry(clean, inbound, ascending) ==
    [inodeMap |-> (2 :> [backend |-> 1, objectPath |-> <<"k">>,
                         eTag |-> statFileETag("S3", 1),
                         cache |-> [l \in 0 .. clean + inbound - 1 |-> l + 1],
                         inboundCacheLineCount |-> inbound]),
     cacheLine |-> [c \in 1 .. clean + inbound |->
                      IF c <= clean
                      THEN [inodeNumber |-> 2, lineNumber |-> c - 1,
                            state |-> CacheLineClean, eTag |-> s3ETagHeader(1),
                            content |-> objectChunk(1, c - 1), waiters |-> <<>>,
                            listElement |-> TRUE]
                      ELSE [inodeNumber |-> 2, lineNumber |-> c - 1,
                            state |-> CacheLineInbound, eTag |-> EmptyString,
                            content |-> <<>>, waiters |-> <<>>,
                            listElement |-> FALSE]],
     cleanCacheLineLRU |-> [k \in 1 .. clean |-> IF ascending THEN k ELSE clean + 1 - k],
     fetchTask |-> [c \in 1 .. clean + inbound |->
                      [pc |-> IF c <= clean THEN "done" ELSE "io",
                       backend |-> 1,
                       readFileInput |-> [filePath |-> <<"k">>, offsetCacheLine |-> c - 1,
                                          ifMatch |-> EmptyString],
                       readFileOutput |-> IF c <= clean
                                          THEN [eTag |-> s3ETagHeader(1),
                                                buf |-> objectChunk(1, c - 1)]
                                          ELSE NoOutput,
                       err |-> FALSE, calls |-> IF c <= clean THEN 1 ELSE 0,
                       missingInode |-> FALSE]],
     waitLog |-> [c \in 1 .. clean + inbound |->
                      [attached |-> <<>>, notified |-> <<>>, backend |-> 1,
                       inodeETag |-> statFileETag("S3", 1)]]]

PruneInit ==
    /\ \E cacheLines \in 0 .. PruneMaxCacheLines : \E clean \in 0 .. PruneMaxClean :
          \E inbound \in 0 .. PruneMaxInbound : \E ascending \in BOOLEAN :
             LET entry == PruneEntry(clean, inbound, ascending)
             IN  /\ config = [cacheLines |-> cacheLines, prefetchWindow |-> 0]
                 /\ inodeMap = entry.inodeMap
                 /\ cacheLine = entry.cacheLine
                 /\ cleanCacheLineLRU = entry.cleanCacheLineLRU
                 /\ fetchTask = entry.fetchTask
                 /\ waitLog = entry.waitLog
                 /\ inboundCacheLineCount = inbound
                 /\ mutex = [holder |-> 1, pc |-> <<"loop">>, iterations |-> 0,
                             entry |-> entry.cleanCacheLineLRU]
    /\ backend = <<[dirName |-> "d1", state |-> "active", context |-> "live",
                    settings |-> DefaultSettings]>>
    /\ objectVersion = [d \in ReloadDirNames |-> 1]
    /\ nextInodeNumber = 3
    /\ dirtyCacheLineLRU = <<>>
    /\ request = <<>>
    /\ reload = [pc |-> "idle", count |-> 0, toRemove |-> {}, draining |-> 0]
    /\ fatal = FALSE
    /\ lookupLog = {}
    /\ driverCalls = {}
    /\ reloadLog = NoReloadLog
    /\ byteRead = NoByteRead
    /\ listing = NoListing
    /\ driverCall = NoDriverCall

\* a Front() that is taken to yield an element always
pruneFrontNeverNil(g) == FALSE

\* cachePrune: listElement == nil after Front()
pruneFrontIsNil(g) == g.cleanCacheLineLRU = <<>>

\* cachePrune: the loop condition is false, the function returns
PruneReturn ==
    /\ mutex.pc = <<"loop">>
    /\ ~overCapacity(Globals)
    /\ mutex' = [mutex EXCEPT !.pc = <<"returned">>]
    /\ UNCHANGED <<engineVars, byteRead, listing, driverCall>>

\* cachePrune: the loop condition is true and the list is empty, the function
\* returns from inside the loop
PruneYield ==
    /\ mutex.pc = <<"loop">>
    /\ overCapacity(Globals)
    /\ pruneFrontIsNil(Globals)
    /\ mutex' = [mutex EXCEPT !.pc = <<"returned">>]
    /\ UNCHANGED <<engineVars, byteRead, listing, driverCall>>

\* cachePrune: one iteration that evicts the front element; an empty list has
\* no element to go on with
PruneIterate ==
    /\ mutex.pc = <<"loop">>
    /\ ~fatal
    /\ overCapacity(Globals)
    /\ ~pruneFrontIsNil(Globals)
    /\ cleanCacheLineLRU # <<>>
    /\ Commit(evictFront(Globals, Head(cleanCacheLineLRU)))
    /\ mutex' = [mutex EXCEPT !.iterations = @ + 1]
    /\ UNCHANGED <<config, backend, objectVersion, nextInodeNumber, reload>>
    /\ UNCHANGED <<lookupLog, driverCalls, reloadLog, byteRead, listing, driverCall>>

NextPrune == PruneReturn \/ PruneYield \/ PruneIterate

PruneSpec ==
    /\ PruneInit
    /\ [][NextPrune]_vars
    /\ WF_vars(NextPrune)

(***************************************************************************)
(* C39 (cachePrune terminates).  For every cacheLines from 0 on, every     *)
(* inbound count and every clean LRU, a call of cachePrune returns; it     *)
(* makes no more iterations than the LRU held lines on entry, each of them *)
(* evicting the front line; it returns with the sum below cacheLines or    *)
(* with the LRU empty, and with the LRU empty and the sum still at or      *)
(* above cacheLines it returns at once, without a further iteration.       *)
(***************************************************************************)
C39_PruneTerminates ==
    /\ [](/\ mutex.iterations <= Len(mutex.entry)
          /\ cleanCacheLineLRU
                = SubSeq(mutex.entry, mutex.iterations + 1, Len(mutex.entry))
          /\ ~fatal
          /\ mutex.pc = <<"returned">>
                => /\ \/ inboundCacheLineCount + Len(cleanCacheLineLRU) < config.cacheLines
                      \/ cleanCacheLineLRU = <<>>
                   /\ cachePrune(Globals) = Globals)
    /\ [][(mutex.pc = <<"loop">> /\ cleanCacheLineLRU = <<>>)
             => mutex'.pc = <<"returned">>]_vars
    /\ (mutex.pc = <<"loop">>) ~> (mutex.pc = <<"returned">>)

\* cachePrune was entered with cacheLines 0, three Clean lines and two Inbound
\* ones; it has evicted the three lines and returned over capacity
C39_Witness ==
    /\ mutex.pc = <<"returned">>
    /\ config.cacheLines = 0
    /\ Len(mutex.entry) = 3
    /\ mutex.iterations = 3
    /\ cleanCacheLineLRU = <<>>
    /\ inboundCacheLineCount = 2

====
